---------------------------- MODULE Spec2Model ----------------------------
(***************************************************************************)
(* Pulse Afisha backend (FastAPI + SQLAlchemy): the database tables, the   *)
(* bearer-token authentication chain and the request handlers, as a state  *)
(* machine.  Every handler is a function from the database and the         *)
(* request to an HTTP status and the database it commits; an action        *)
(* applies it and records the response.                                    *)
(***************************************************************************)
EXTENDS Integers, FiniteSets, Sequences, TLC

VARIABLES
    users,       \* table user: id -> [email, hashed_password, role, is_blocked]
    tokens,      \* the JWTs the server has signed so far
    categories,  \* table eventcategory: rows [id, name, slug]
    events,      \* table event: id -> [status, organizer_id, category_id, title,
                 \* is_free, price_from, moderation_comment]
    rsvps,       \* table event_rsvp: rows [id, user_id, event_id, status]
    favorites,   \* table favorite_event: rows [id, user_id, event_id]
    requests,    \* table organizer_request: id -> [user_id, status, admin_comment]
    tickets,     \* table support_ticket: id -> [user_id, status, admin_reply]
    seq,         \* the serial primary-key sequences of the tables
    inflight,    \* requests that have read and not yet committed: proc -> locals
                 \* [op, tok, user, event, seen, loaded]
    resp         \* the last HTTP response: [op, caller, code, body]

vars == <<users, tokens, categories, events, rsvps, favorites, requests, tickets, seq,
          inflight, resp>>

(***************************************************************************)
(* Bounds of the model.                                                    *)
(***************************************************************************)
NUsers == 2        \* seeded accounts: user 1 is the admin
MaxEvents == 2     \* event ids handed out
MaxCategories == 2 \* rows of the category table
MaxRows == 2       \* RSVP ids and favorite ids handed out
MaxProcs == 2      \* requests in flight at once
MaxRequests == 2   \* organizer requests begun one after the other
MaxRegistered == 2 \* accounts registered after deployment
MaxTickets == 2    \* support ticket ids handed out

UserIds == 1..NUsers
Procs == 1..MaxProcs

(***************************************************************************)
(* Enumerations of the models.                                             *)
(***************************************************************************)
UserRole == {"admin", "organizer", "user"}
EventStatus == {"draft", "pending_moderation", "published", "rejected", "archived"}
RSVPStatus == {"going", "interested", "canceled"}

(***************************************************************************)
(* Text.  A string is a sequence of characters, so that strip() and        *)
(* lower() are computed; a NULL column is the one-element sequence NULL.   *)
(***************************************************************************)
NULL == <<"NULL">>

RECURSIVE LStrip(_)
LStrip(s) == IF s # <<>> /\ Head(s) = " " THEN LStrip(Tail(s)) ELSE s

RECURSIVE RStrip(_)
RStrip(s) ==
    IF s # <<>> /\ s[Len(s)] = " " THEN RStrip(SubSeq(s, 1, Len(s) - 1)) ELSE s

Strip(s) == RStrip(LStrip(s))

LowerChar(c) == CASE c = "A" -> "a" [] c = "B" -> "b" [] OTHER -> c

Lower(s) == [i \in 1..Len(s) |-> LowerChar(s[i])]

DefaultRejectComment == <<"r", "e", "j">>

hash_password(p) == <<"pbkdf2", p>>

verify_password(plain, hashed) == hash_password(plain) = hashed

(***************************************************************************)
(* The database as one value, and handler results.                         *)
(***************************************************************************)
DB == [users |-> users, categories |-> categories, events |-> events,
       rsvps |-> rsvps, favorites |-> favorites, requests |-> requests,
       tickets |-> tickets, seq |-> seq]

Result(code, db) == [code |-> code, db |-> db]

\* An unhandled exception: the framework answers 500 and the session is
\* closed without a commit.
ServerError(db) == Result(500, db)

Success == {200, 201, 204}

\* The id of no row.
NoRow == 0

(***************************************************************************)
(* Tokens.  create_access_token signs {sub, email, role, exp};             *)
(* decode_token returns None for anything the server did not sign.         *)
(***************************************************************************)
BadToken == [sub |-> 0, role |-> "none", scope |-> "none"]

create_access_token(uid, role) == [sub |-> uid, role |-> role, scope |-> "access"]

\* None is BadToken.
decode_token(tok) == IF tok \in tokens THEN tok ELSE BadToken

\* get_current_user without the is_blocked check.
get_current_user_no_block_check(db, tok) ==
    LET payload == decode_token(tok) IN
    IF payload = BadToken THEN [code |-> 401, user |-> 0]
    ELSE IF payload.sub \notin DOMAIN db.users THEN [code |-> 401, user |-> 0]
    ELSE [code |-> 200, user |-> payload.sub]

\* get_current_user: [code, user]
get_current_user(db, tok) ==
    LET payload == decode_token(tok) IN
    IF payload = BadToken THEN [code |-> 401, user |-> 0]
    ELSE IF payload.sub \notin DOMAIN db.users THEN [code |-> 401, user |-> 0]
    ELSE IF db.users[payload.sub].is_blocked THEN [code |-> 403, user |-> payload.sub]
    ELSE [code |-> 200, user |-> payload.sub]

\* role_required reading the role claim of the token instead of the stored role.
role_required_token_claim(roles, db, tok) ==
    LET cur == get_current_user(db, tok) IN
    IF cur.code # 200 THEN cur
    ELSE IF tok.role \notin roles THEN [code |-> 403, user |-> cur.user]
    ELSE cur

role_required(roles, db, tok) ==
    LET cur == get_current_user(db, tok) IN
    IF cur.code # 200 THEN cur
    ELSE IF db.users[cur.user].role \notin roles THEN [code |-> 403, user |-> cur.user]
    ELSE cur

\* The allowed sets the routes declare.
AdminOnly == {"admin"}
OrganizerOrAdmin == {"organizer", "admin"}

(***************************************************************************)
(* Table operations: what the database does on INSERT and DELETE.          *)
(***************************************************************************)
CategoryIds(db) == {c.id : c \in db.categories}

EventIds(db) == DOMAIN db.events

\* event.category_id and event.organizer_id are foreign keys.
EventForeignKeysHold(db, row) ==
    row.category_id \in CategoryIds(db) /\ row.organizer_id \in DOMAIN db.users

InsertEvent(db, row) ==
    IF ~EventForeignKeysHold(db, row) THEN ServerError(db)
    ELSE Result(201,
        [db EXCEPT !.events = [i \in EventIds(db) \cup {db.seq.event} |->
                                   IF i = db.seq.event THEN row ELSE db.events[i]],
                   !.seq.event = @ + 1])

\* DELETE FROM event with foreign keys that do not cascade (and are not checked).
DeleteEvent_no_cascade(db, eid) ==
    [db EXCEPT !.events = [i \in EventIds(db) \ {eid} |-> db.events[i]]]

\* DELETE FROM event: event_rsvp.event_id and favorite_event.event_id are
\* ON DELETE CASCADE.
DeleteEvent(db, eid) ==
    [db EXCEPT !.events = [i \in EventIds(db) \ {eid} |-> db.events[i]],
               !.rsvps = {r \in db.rsvps : r.event_id # eid},
               !.favorites = {f \in db.favorites : f.event_id # eid}]

SetEvent(db, eid, row) == [db EXCEPT !.events[eid] = row]

(***************************************************************************)
(* routes/events.py: the organizer's handlers.                             *)
(***************************************************************************)
\* The optional fields is_free and price_from of a payload are present in
\* the record when they are sent with a value; price_from NULL is NoPrice.
HasField(payload, name) == name \in DOMAIN payload

NoPrice == 0 - 1

create_event(db, tok, payload) ==
    LET cur == role_required(OrganizerOrAdmin, db, tok) IN
    IF cur.code # 200 THEN Result(cur.code, db)
    ELSE IF payload.category_id \notin CategoryIds(db) THEN Result(400, db)
    ELSE InsertEvent(db, [status |-> "draft",
                          organizer_id |-> cur.user,
                          category_id |-> payload.category_id,
                          title |-> payload.title,
                          is_free |-> IF HasField(payload, "is_free")
                                      THEN payload.is_free ELSE TRUE,
                          price_from |-> IF HasField(payload, "price_from")
                                         THEN payload.price_from ELSE NoPrice,
                          moderation_comment |-> NULL])

\* The end of the request's session (app.db.session.get_session): what the
\* request flushed without committing is rolled back.
get_session_exit(committed, flushed) == committed

\* The fields update_event assigns before it looks up the category.
AssignedBeforeCategory(event, payload) ==
    IF payload.title # NULL THEN [event EXCEPT !.title = payload.title] ELSE event

\* The fields of the payload are NULL when absent.
UpdateFields(db, event, payload, demote) ==
    LET e1 == IF payload.title # NULL THEN [event EXCEPT !.title = payload.title]
              ELSE event
        e2 == IF payload.category_id # 0
              THEN [e1 EXCEPT !.category_id = payload.category_id] ELSE e1
        e3 == IF HasField(payload, "is_free")
              THEN [e2 EXCEPT !.is_free = payload.is_free,
                              !.price_from = IF payload.is_free THEN NoPrice ELSE @]
              ELSE e2
        e4 == IF HasField(payload, "price_from")
              THEN [e3 EXCEPT !.price_from = payload.price_from] ELSE e3
    IN  IF demote
        THEN [e4 EXCEPT !.status = "pending_moderation", !.moderation_comment = NULL]
        ELSE e4

\* update_event committing what it assigned before the category check fails.
update_event_keeps_assigned(db, tok, eid, payload) ==
    LET cur == role_required(OrganizerOrAdmin, db, tok) IN
    IF cur.code # 200 THEN Result(cur.code, db)
    ELSE IF eid \notin EventIds(db) THEN Result(404, db)
    ELSE LET event == db.events[eid]
             role == db.users[cur.user].role
         IN  IF role # "admin" /\ event.organizer_id # cur.user THEN Result(403, db)
             ELSE IF role # "admin" /\ event.status = "archived" THEN Result(400, db)
             ELSE IF payload.category_id # 0 /\ payload.category_id \notin CategoryIds(db)
                  THEN Result(400, SetEvent(db, eid, AssignedBeforeCategory(event, payload)))
             ELSE Result(200, SetEvent(db, eid,
                      UpdateFields(db, event, payload, role # "admin" /\ event.status = "published")))

\* update_event sending a published event back to moderation for every caller.
update_event_always_demotes(db, tok, eid, payload) ==
    LET cur == role_required(OrganizerOrAdmin, db, tok) IN
    IF cur.code # 200 THEN Result(cur.code, db)
    ELSE IF eid \notin EventIds(db) THEN Result(404, db)
    ELSE LET event == db.events[eid]
             role == db.users[cur.user].role
         IN  IF role # "admin" /\ event.organizer_id # cur.user THEN Result(403, db)
             ELSE IF role # "admin" /\ event.status = "archived" THEN Result(400, db)
             ELSE IF payload.category_id # 0 /\ payload.category_id \notin CategoryIds(db)
                  THEN Result(400, db)
             ELSE Result(200, SetEvent(db, eid,
                      UpdateFields(db, event, payload, event.status = "published")))

update_event(db, tok, eid, payload) ==
    LET cur == role_required(OrganizerOrAdmin, db, tok) IN
    IF cur.code # 200 THEN Result(cur.code, db)
    ELSE IF eid \notin EventIds(db) THEN Result(404, db)
    ELSE LET event == db.events[eid]
             role == db.users[cur.user].role
             was_published == event.status = "published"
         IN  IF role # "admin" /\ event.organizer_id # cur.user THEN Result(403, db)
             ELSE IF role # "admin" /\ event.status = "archived" THEN Result(400, db)
             ELSE IF payload.category_id # 0 /\ payload.category_id \notin CategoryIds(db)
                  THEN Result(400, get_session_exit(db,
                           SetEvent(db, eid, AssignedBeforeCategory(event, payload))))
             ELSE Result(200, SetEvent(db, eid,
                      UpdateFields(db, event, payload, role # "admin" /\ was_published)))

\* update_event in two steps, for a payload that carries a title only.  The
\* read is the SELECT with the checks; `loaded` is the title the handler
\* assigned (NULL when it is the loaded one) and `seen` the event when the
\* handler also assigned status and moderation_comment.
update_event_read(db, tok, eid, title) ==
    LET cur == role_required(OrganizerOrAdmin, db, tok) IN
    IF cur.code # 200
    THEN [code |-> cur.code, user |-> cur.user, seen |-> NoRow, loaded |-> NULL]
    ELSE IF eid \notin EventIds(db)
    THEN [code |-> 404, user |-> cur.user, seen |-> NoRow, loaded |-> NULL]
    ELSE LET event == db.events[eid]
             role == db.users[cur.user].role
             was_published == event.status = "published"
         IN  IF role # "admin" /\ event.organizer_id # cur.user
             THEN [code |-> 403, user |-> cur.user, seen |-> NoRow, loaded |-> NULL]
             ELSE IF role # "admin" /\ event.status = "archived"
             THEN [code |-> 400, user |-> cur.user, seen |-> NoRow, loaded |-> NULL]
             ELSE [code |-> 200, user |-> cur.user,
                   seen |-> IF role # "admin" /\ was_published THEN eid ELSE NoRow,
                   loaded |-> IF title = event.title THEN NULL ELSE title]

\* The UPDATE at commit writes the assigned columns only; the other columns
\* keep what is stored by then.
update_event_commit(db, eid, seen, loaded) ==
    IF eid \notin EventIds(db) THEN ServerError(db)
    ELSE LET e0 == db.events[eid]
             e1 == IF loaded # NULL THEN [e0 EXCEPT !.title = loaded] ELSE e0
             e2 == IF seen # NoRow
                   THEN [e1 EXCEPT !.status = "pending_moderation",
                                   !.moderation_comment = NULL]
                   ELSE e1
         IN  Result(200, SetEvent(db, eid, e2))

\* The statuses an organizer may delete, with published added.
OrganizerDeletable_with_published == {"draft", "rejected", "archived", "published"}

OrganizerDeletable == {"draft", "rejected", "archived"}

\* delete_event without the ownership check.
delete_event_no_owner_check(db, tok, eid) ==
    LET cur == role_required(OrganizerOrAdmin, db, tok) IN
    IF cur.code # 200 THEN Result(cur.code, db)
    ELSE IF eid \notin EventIds(db) THEN Result(404, db)
    ELSE IF db.users[cur.user].role # "admin"
            /\ db.events[eid].status \notin OrganizerDeletable
         THEN Result(400, db)
    ELSE Result(204, DeleteEvent(db, eid))

delete_event(db, tok, eid) ==
    LET cur == role_required(OrganizerOrAdmin, db, tok) IN
    IF cur.code # 200 THEN Result(cur.code, db)
    ELSE IF eid \notin EventIds(db) THEN Result(404, db)
    ELSE LET event == db.events[eid]
             role == db.users[cur.user].role
         IN  IF role # "admin" /\ event.organizer_id # cur.user THEN Result(403, db)
             ELSE IF role # "admin" /\ event.status \notin OrganizerDeletable
                  THEN Result(400, db)
             ELSE Result(204, DeleteEvent(db, eid))

\* The statuses submit accepts, with published added.
Submittable_with_published == {"draft", "rejected", "published"}

Submittable == {"draft", "rejected"}

submit_event_for_moderation(db, tok, eid) ==
    LET cur == role_required(OrganizerOrAdmin, db, tok) IN
    IF cur.code # 200 THEN Result(cur.code, db)
    ELSE IF eid \notin EventIds(db) THEN Result(404, db)
    ELSE LET event == db.events[eid]
             role == db.users[cur.user].role
         IN  IF role # "admin" /\ event.organizer_id # cur.user THEN Result(403, db)
             ELSE IF event.status \notin Submittable THEN Result(400, db)
             ELSE Result(200, SetEvent(db, eid,
                      [event EXCEPT !.status = "pending_moderation",
                                    !.moderation_comment = NULL]))

\* The two guarded reads: the status only, the body is the stored row(s).
get_event_for_manage(db, tok, eid) ==
    LET cur == role_required(OrganizerOrAdmin, db, tok) IN
    IF cur.code # 200 THEN Result(cur.code, db)
    ELSE IF eid \notin EventIds(db) THEN Result(404, db)
    ELSE IF db.users[cur.user].role # "admin" /\ db.events[eid].organizer_id # cur.user
         THEN Result(403, db)
    ELSE Result(200, db)

list_event_rsvps_for_organizer(db, tok, eid) ==
    LET cur == role_required(OrganizerOrAdmin, db, tok) IN
    IF cur.code # 200 THEN Result(cur.code, db)
    ELSE IF eid \notin EventIds(db) THEN Result(404, db)
    ELSE IF db.users[cur.user].role # "admin" /\ db.events[eid].organizer_id # cur.user
         THEN Result(403, db)
    ELSE Result(200, db)

(***************************************************************************)
(* routes/admin_events.py: the router requires role admin.                 *)
(***************************************************************************)
\* body is NULL when the request has no body, else the moderation_comment
\* (itself NULL when the field is absent).
\* publish_event behind the organizers' dependency instead of the admin router's.
publish_event_organizer_too(db, tok, eid, body) ==
    LET cur == role_required(OrganizerOrAdmin, db, tok) IN
    IF cur.code # 200 THEN Result(cur.code, db)
    ELSE IF eid \notin EventIds(db) THEN Result(404, db)
    ELSE IF db.events[eid].status = "published" THEN Result(400, db)
    ELSE Result(200, SetEvent(db, eid,
             [db.events[eid] EXCEPT !.status = "published",
                                    !.moderation_comment = body]))

\* publish_event accepting only an event under moderation.
publish_event_pending_only(db, tok, eid, body) ==
    LET cur == role_required(AdminOnly, db, tok) IN
    IF cur.code # 200 THEN Result(cur.code, db)
    ELSE IF eid \notin EventIds(db) THEN Result(404, db)
    ELSE IF db.events[eid].status # "pending_moderation" THEN Result(400, db)
    ELSE Result(200, SetEvent(db, eid,
             [db.events[eid] EXCEPT !.status = "published",
                                    !.moderation_comment = body]))

publish_event(db, tok, eid, body) ==
    LET cur == role_required(AdminOnly, db, tok) IN
    IF cur.code # 200 THEN Result(cur.code, db)
    ELSE IF eid \notin EventIds(db) THEN Result(404, db)
    ELSE IF db.events[eid].status = "published" THEN Result(400, db)
    ELSE Result(200, SetEvent(db, eid,
             [db.events[eid] EXCEPT !.status = "published",
                                    !.moderation_comment = body]))

\* publish_event in two steps: the SELECT with the checks, then the UPDATE of
\* the two columns the handler assigned.
publish_event_read(db, tok, eid) ==
    LET cur == role_required(AdminOnly, db, tok) IN
    IF cur.code # 200 THEN [code |-> cur.code, user |-> cur.user, seen |-> NoRow]
    ELSE IF eid \notin EventIds(db) THEN [code |-> 404, user |-> cur.user, seen |-> NoRow]
    ELSE IF db.events[eid].status = "published"
         THEN [code |-> 400, user |-> cur.user, seen |-> NoRow]
    ELSE [code |-> 200, user |-> cur.user, seen |-> eid]

publish_event_commit(db, eid, body) ==
    IF eid \notin EventIds(db) THEN ServerError(db)
    ELSE Result(200, SetEvent(db, eid,
             [db.events[eid] EXCEPT !.status = "published",
                                    !.moderation_comment = body]))

\* reject_event storing the stripped comment as it is, without the default text.
reject_event_keeps_blank(db, tok, eid, body) ==
    LET cur == role_required(AdminOnly, db, tok) IN
    IF cur.code # 200 THEN Result(cur.code, db)
    ELSE IF eid \notin EventIds(db) THEN Result(404, db)
    ELSE IF db.events[eid].status # "pending_moderation" THEN Result(400, db)
    ELSE Result(200, SetEvent(db, eid,
             [db.events[eid] EXCEPT
                 !.status = "rejected",
                 !.moderation_comment = Strip(IF body = NULL THEN <<>> ELSE body)]))

reject_event(db, tok, eid, body) ==
    LET cur == role_required(AdminOnly, db, tok) IN
    IF cur.code # 200 THEN Result(cur.code, db)
    ELSE IF eid \notin EventIds(db) THEN Result(404, db)
    ELSE IF db.events[eid].status # "pending_moderation" THEN Result(400, db)
    ELSE LET stripped == Strip(IF body = NULL THEN <<>> ELSE body)
             comment == IF stripped = <<>> THEN DefaultRejectComment ELSE stripped
         IN  Result(200, SetEvent(db, eid,
                 [db.events[eid] EXCEPT !.status = "rejected",
                                        !.moderation_comment = comment]))

delete_event_as_admin(db, tok, eid) ==
    LET cur == role_required(AdminOnly, db, tok) IN
    IF cur.code # 200 THEN Result(cur.code, db)
    ELSE IF eid \notin EventIds(db) THEN Result(404, db)
    ELSE Result(204, DeleteEvent(db, eid))

(***************************************************************************)
(* routes/admin_users.py: the router requires role admin.                  *)
(***************************************************************************)
update_user_role(db, tok, uid, new_role) ==
    LET cur == role_required(AdminOnly, db, tok) IN
    IF cur.code # 200 THEN Result(cur.code, db)
    ELSE IF uid \notin DOMAIN db.users THEN Result(404, db)
    ELSE IF db.users[uid].role = new_role THEN Result(200, db)
    ELSE Result(200, [db EXCEPT !.users[uid].role = new_role])

update_user_block(db, tok, uid, is_blocked) ==
    LET cur == role_required(AdminOnly, db, tok) IN
    IF cur.code # 200 THEN Result(cur.code, db)
    ELSE IF uid \notin DOMAIN db.users THEN Result(404, db)
    ELSE Result(200, [db EXCEPT !.users[uid].is_blocked = is_blocked])

\* routes/users.py: update_me taking a role from the payload.
update_me_takes_role(db, tok) ==
    LET cur == get_current_user(db, tok) IN
    IF cur.code # 200 THEN Result(cur.code, db)
    ELSE Result(200, [db EXCEPT !.users[cur.user].role = "admin"])

\* routes/users.py: update_me assigns full_name, avatar_url, phone, telegram,
\* about and preferences, columns that are not part of the user rows here.
update_me(db, tok) ==
    LET cur == get_current_user(db, tok) IN
    IF cur.code # 200 THEN Result(cur.code, db)
    ELSE Result(200, db)

(***************************************************************************)
(* routes/auth.py: login.  The result carries the token instead of a       *)
(* database: login writes nothing.                                         *)
(***************************************************************************)
NormalizeEmail(s) == Lower(Strip(s))

UsersByEmail(db, email) == {u \in DOMAIN db.users : db.users[u].email = email}

login_user(db, username, password) ==
    LET found == UsersByEmail(db, NormalizeEmail(username)) IN
    IF found = {} THEN [code |-> 400, token |-> BadToken]
    ELSE LET uid == CHOOSE u \in found : TRUE IN
         IF ~verify_password(password, db.users[uid].hashed_password)
         THEN [code |-> 400, token |-> BadToken]
         ELSE IF db.users[uid].is_blocked THEN [code |-> 403, token |-> BadToken]
         ELSE [code |-> 200, token |-> create_access_token(uid, db.users[uid].role)]

\* unique=True of user.email.
UserEmailUniqueHolds(db, email) == UsersByEmail(db, email) = {}

\* register_user without the normalization of the email.
register_user_read_as_typed(db, email) ==
    LET found == UsersByEmail(db, email) IN
    [code |-> IF Cardinality(found) > 1 THEN 500 ELSE IF found # {} THEN 400 ELSE 200,
     user |-> 0, seen |-> NoRow, loaded |-> email]

\* The reading half of register_user: [code, user, seen, loaded], loaded is
\* normalized_email.
register_user_read(db, email) ==
    LET normalized_email == NormalizeEmail(email)
        found == UsersByEmail(db, normalized_email)
    IN  [code |-> IF Cardinality(found) > 1 THEN 500 ELSE IF found # {} THEN 400 ELSE 200,
         user |-> 0, seen |-> NoRow, loaded |-> normalized_email]

\* The INSERT, checked by the unique index of user.email.
register_user_commit(db, normalized_email, password) ==
    IF ~UserEmailUniqueHolds(db, normalized_email) THEN ServerError(db)
    ELSE Result(201,
             [db EXCEPT !.users = [u \in DOMAIN @ \cup {db.seq.user} |->
                                      IF u \in DOMAIN @ THEN @[u]
                                      ELSE [email |-> normalized_email,
                                            hashed_password |-> hash_password(password),
                                            role |-> "user",
                                            is_blocked |-> FALSE]],
                        !.seq.user = @ + 1])

register_user(db, email, password) ==
    LET rd == register_user_read(db, email) IN
    IF rd.code # 200 THEN Result(rd.code, db)
    ELSE register_user_commit(db, rd.loaded, password)

\* services/email.py: what send_email does with the SMTP server it finds.
SmtpStates == {"not_configured", "accepts", "fails"}

send_email(smtp) ==
    CASE smtp = "not_configured" -> "skipped"
      [] smtp = "accepts"        -> "sent"
      [] OTHER                   -> "raised"

\* core/security.py does not hold create_password_reset_token; reset_password
\* accepts a signed token whose scope is password_reset and whose sub is the
\* user id, and this is the token assumed here, made without an exception.
create_password_reset_token(uid) == [sub |-> uid, role |-> "none", scope |-> "password_reset"]

PublicDetail == "detail"

\* forgot_password letting the exception of send_email through.
forgot_password_send_unguarded(db, email, smtp) ==
    LET found == UsersByEmail(db, NormalizeEmail(email)) IN
    IF Cardinality(found) > 1
    THEN [code |-> 500, detail |-> "error", db |-> db, token |-> BadToken]
    ELSE IF found = {}
    THEN [code |-> 200, detail |-> PublicDetail, db |-> db, token |-> BadToken]
    ELSE LET token == create_password_reset_token(CHOOSE u \in found : TRUE) IN
         IF send_email(smtp) = "raised"
         THEN [code |-> 500, detail |-> "error", db |-> db, token |-> token]
         ELSE [code |-> 200, detail |-> PublicDetail, db |-> db, token |-> token]

\* [code, detail, db, token].  The token is what the server signed (BadToken
\* when it signed none); it goes into the letter only, not into the answer.
\* The try/except around send_email swallows every exception.
forgot_password(db, email, smtp) ==
    LET found == UsersByEmail(db, NormalizeEmail(email)) IN
    IF Cardinality(found) > 1
    THEN [code |-> 500, detail |-> "error", db |-> db, token |-> BadToken]
    ELSE IF found = {}
    THEN [code |-> 200, detail |-> PublicDetail, db |-> db, token |-> BadToken]
    ELSE LET user   == CHOOSE u \in found : TRUE
             token  == create_password_reset_token(user)
             letter == send_email(smtp)
         IN  [code |-> 200, detail |-> PublicDetail, db |-> db, token |-> token]

\* reset_password: jwt.decode with the key and algorithm of decode_token, the
\* scope check, the sub check, the user lookup, then the new hash is stored.
reset_password_any_scope(db, tok, new_password) ==
    LET data == decode_token(tok) IN
    IF data = BadToken THEN Result(400, db)
    ELSE IF data.sub = 0 THEN Result(400, db)
    ELSE IF data.sub \notin DOMAIN db.users THEN Result(404, db)
    ELSE Result(200, [db EXCEPT !.users[data.sub].hashed_password =
                                    hash_password(new_password)])

reset_password(db, tok, new_password) ==
    LET data == decode_token(tok) IN
    IF data = BadToken THEN Result(400, db)
    ELSE IF data.scope # "password_reset" THEN Result(400, db)
    ELSE IF data.sub = 0 THEN Result(400, db)
    ELSE IF data.sub \notin DOMAIN db.users THEN Result(404, db)
    ELSE Result(200, [db EXCEPT !.users[data.sub].hashed_password =
                                    hash_password(new_password)])

\* routes/users.py: read_me answers with the profile of the current user.
read_me(db, tok) == Result(get_current_user(db, tok).code, db)

(***************************************************************************)
(* routes/support_tickets.py and routes/admin_support_tickets.py           *)
(***************************************************************************)
SupportTicketStatus == {"open", "answered", "closed"}

TicketIds(db) == DOMAIN db.tickets

create_support_ticket(db, tok) ==
    LET cur == get_current_user(db, tok) IN
    IF cur.code # 200 THEN Result(cur.code, db)
    ELSE Result(201,
             [db EXCEPT !.tickets = [i \in TicketIds(db) \cup {db.seq.ticket} |->
                                        IF i = db.seq.ticket
                                        THEN [user_id |-> cur.user, status |-> "open",
                                              admin_reply |-> NULL]
                                        ELSE db.tickets[i]],
                        !.seq.ticket = @ + 1])

reply_ticket(db, tok, tid, reply) ==
    LET cur == role_required(AdminOnly, db, tok) IN
    IF cur.code # 200 THEN Result(cur.code, db)
    ELSE IF tid \notin TicketIds(db) THEN Result(404, db)
    ELSE Result(200, [db EXCEPT !.tickets[tid].admin_reply = Strip(reply),
                                !.tickets[tid].status = "answered"])

close_ticket(db, tok, tid) ==
    LET cur == role_required(AdminOnly, db, tok) IN
    IF cur.code # 200 THEN Result(cur.code, db)
    ELSE IF tid \notin TicketIds(db) THEN Result(404, db)
    ELSE Result(200, [db EXCEPT !.tickets[tid].status = "closed"])

admin_delete_support_ticket(db, tok, tid) ==
    LET cur == role_required(AdminOnly, db, tok) IN
    IF cur.code # 200 THEN Result(cur.code, db)
    ELSE IF tid \notin TicketIds(db) THEN Result(404, db)
    ELSE Result(204, [db EXCEPT !.tickets = [i \in TicketIds(db) \ {tid} |->
                                                db.tickets[i]]])

(***************************************************************************)
(* routes/categories.py                                                    *)
(***************************************************************************)
\* scalar_one_or_none raises MultipleResultsFound when the name matches one
\* row and the slug another.
create_category(db, tok, name, slug) ==
    LET cur == role_required(AdminOnly, db, tok)
        hits == {c \in db.categories : c.name = name \/ c.slug = slug}
    IN  IF cur.code # 200 THEN Result(cur.code, db)
        ELSE IF Cardinality(hits) > 1 THEN ServerError(db)
        ELSE IF hits # {} THEN Result(400, db)
        ELSE Result(201,
                 [db EXCEPT !.categories = @ \cup
                                {[id |-> db.seq.category, name |-> name, slug |-> slug]},
                            !.seq.category = @ + 1])

(***************************************************************************)
(* routes/organizer_requests.py and routes/admin_organizer_requests.py.    *)
(* A row is [user_id, status, admin_comment]; the message of the request   *)
(* is not modelled.  Each handler is a read, which decides the answer, and *)
(* a commit, which writes the rows the read loaded.                        *)
(***************************************************************************)
OrganizerRequestStatus == {"pending", "approved", "rejected"}

DefaultApproveComment == <<"a", "p", "r">>

DefaultRejectReason == <<"d", "e", "c">>

PendingRequests(db, uid) ==
    {r \in DOMAIN db.requests :
        db.requests[r].user_id = uid /\ db.requests[r].status = "pending"}

\* [code, user, seen]: scalar_one_or_none raises when the caller has two
\* pending requests.
create_organizer_request_read(db, tok) ==
    LET cur == get_current_user(db, tok) IN
    IF cur.code # 200 THEN [code |-> cur.code, user |-> cur.user, seen |-> NoRow]
    ELSE IF db.users[cur.user].role \in {"organizer", "admin"}
         THEN [code |-> 400, user |-> cur.user, seen |-> NoRow]
    ELSE IF Cardinality(PendingRequests(db, cur.user)) > 1
         THEN [code |-> 500, user |-> cur.user, seen |-> NoRow]
    ELSE IF PendingRequests(db, cur.user) # {}
         THEN [code |-> 400, user |-> cur.user, seen |-> NoRow]
    ELSE [code |-> 200, user |-> cur.user, seen |-> NoRow]

\* The INSERT: the table has a primary key and a foreign key to user, and no
\* unique constraint.
create_organizer_request_commit(db, uid) ==
    IF uid \notin DOMAIN db.users THEN ServerError(db)
    ELSE Result(201,
             [db EXCEPT !.requests = Append(@, [user_id |-> uid, status |-> "pending",
                                                admin_comment |-> NULL]),
                        !.seq.request = @ + 1])

create_organizer_request(db, tok) ==
    LET rd == create_organizer_request_read(db, tok) IN
    IF rd.code # 200 THEN Result(rd.code, db)
    ELSE create_organizer_request_commit(db, rd.user)

\* [code, user, seen, loaded]: the rows the session loaded.  seen is the
\* user row the commit will UPDATE, NoRow when the role loaded is organizer
\* already (the session then has no change to flush for it); loaded is the
\* admin_comment computed from the one loaded.
approve_organizer_request_read(db, tok, rid) ==
    LET cur == role_required(AdminOnly, db, tok)
        no(code) == [code |-> code, user |-> cur.user, seen |-> NoRow, loaded |-> NULL]
    IN  IF cur.code # 200 THEN no(cur.code)
        ELSE IF rid \notin DOMAIN db.requests THEN no(404)
        ELSE IF db.requests[rid].status # "pending" THEN no(400)
        ELSE IF db.requests[rid].user_id \notin DOMAIN db.users THEN no(404)
        ELSE LET prior == db.requests[rid].admin_comment
                 kept  == Strip(IF prior = NULL THEN <<>> ELSE prior)
             IN  [code |-> 200, user |-> cur.user,
                  seen |-> IF db.users[db.requests[rid].user_id].role = "organizer"
                           THEN NoRow ELSE db.requests[rid].user_id,
                  loaded |-> IF kept = <<>> THEN DefaultApproveComment ELSE kept]

\* One commit: UPDATE of the request row by its id, and of the user row.
approve_organizer_request_commit(db, rid, seen, comment) ==
    LET db1 == [db EXCEPT !.requests[rid].status = "approved",
                          !.requests[rid].admin_comment = comment]
    IN  Result(200, IF seen = NoRow THEN db1
                    ELSE [db1 EXCEPT !.users[seen].role = "organizer"])

approve_organizer_request(db, tok, rid) ==
    LET rd == approve_organizer_request_read(db, tok, rid) IN
    IF rd.code # 200 THEN Result(rd.code, db)
    ELSE approve_organizer_request_commit(db, rid, rd.seen, rd.loaded)

reject_organizer_request_read(db, tok, rid) ==
    LET cur == role_required(AdminOnly, db, tok) IN
    IF cur.code # 200 THEN [code |-> cur.code, user |-> cur.user, seen |-> NoRow]
    ELSE IF rid \notin DOMAIN db.requests
         THEN [code |-> 404, user |-> cur.user, seen |-> NoRow]
    ELSE IF db.requests[rid].status # "pending"
         THEN [code |-> 400, user |-> cur.user, seen |-> NoRow]
    ELSE [code |-> 200, user |-> cur.user, seen |-> NoRow]

\* reason is NULL when the query parameter is absent.
reject_organizer_request_commit(db, rid, reason) ==
    Result(200, [db EXCEPT !.requests[rid].status = "rejected",
                           !.requests[rid].admin_comment =
                               Strip(IF reason = NULL THEN DefaultRejectReason
                                     ELSE reason)])

reject_organizer_request(db, tok, rid, reason) ==
    LET rd == reject_organizer_request_read(db, tok, rid) IN
    IF rd.code # 200 THEN Result(rd.code, db)
    ELSE reject_organizer_request_commit(db, rid, reason)

(***************************************************************************)
(* RSVP and favorites.  A handler reads (the event, then its own row) and  *)
(* writes at commit; the locals it read are `seen`.                        *)
(***************************************************************************)
\* The lookup of the event without the condition on its status.
PublishedEvent_any_status(db, eid) == eid \in EventIds(db)

PublishedEvent(db, eid) == eid \in EventIds(db) /\ db.events[eid].status = "published"

RsvpRows(db, uid, eid) == {r \in db.rsvps : r.user_id = uid /\ r.event_id = eid}

FavoriteRows(db, uid, eid) == {f \in db.favorites : f.user_id = uid /\ f.event_id = eid}

\* A table without the unique constraint.
no_unique_constraint(db, uid, eid) == TRUE

\* UniqueConstraint("user_id", "event_id") of event_rsvp and of favorite_event.
RsvpUniqueHolds(db, uid, eid) == RsvpRows(db, uid, eid) = {}

FavoriteUniqueHolds(db, uid, eid) == FavoriteRows(db, uid, eid) = {}

\* The reading half of set_event_rsvp: [code, user, seen].  scalar_one_or_none
\* raises when two rows match.
set_event_rsvp_read(db, tok, eid) ==
    LET cur == get_current_user(db, tok)
        rows == RsvpRows(db, cur.user, eid)
    IN  IF cur.code # 200 THEN [code |-> cur.code, user |-> cur.user, seen |-> NoRow]
        ELSE IF ~PublishedEvent(db, eid)
             THEN [code |-> 404, user |-> cur.user, seen |-> NoRow]
        ELSE IF Cardinality(rows) > 1
             THEN [code |-> 500, user |-> cur.user, seen |-> NoRow]
        ELSE [code |-> 200, user |-> cur.user,
              seen |-> IF rows = {} THEN NoRow ELSE (CHOOSE r \in rows : TRUE).id]

\* The commit: INSERT when no row was seen (the foreign key and the unique
\* constraint are checked by the database), else UPDATE of the row seen
\* (StaleDataError when it is gone).
set_event_rsvp_commit(db, uid, eid, status, seen) ==
    IF seen = NoRow
    THEN IF eid \notin EventIds(db) \/ ~RsvpUniqueHolds(db, uid, eid) THEN ServerError(db)
         ELSE Result(200,
                  [db EXCEPT !.rsvps = @ \cup {[id |-> db.seq.rsvp, user_id |-> uid,
                                                event_id |-> eid, status |-> status]},
                             !.seq.rsvp = @ + 1])
    ELSE IF \A r \in db.rsvps : r.id # seen THEN ServerError(db)
         ELSE Result(200,
                  [db EXCEPT !.rsvps = {IF r.id = seen THEN [r EXCEPT !.status = status]
                                        ELSE r : r \in @}])

set_event_rsvp(db, tok, eid, status) ==
    LET rd == set_event_rsvp_read(db, tok, eid) IN
    IF rd.code # 200 THEN Result(rd.code, db)
    ELSE set_event_rsvp_commit(db, rd.user, eid, status, rd.seen)

\* add_favorite: seen is TRUE when the row exists (the handler then answers
\* 201 without writing).
add_favorite_read(db, tok, eid) ==
    LET cur == get_current_user(db, tok)
        rows == FavoriteRows(db, cur.user, eid)
    IN  IF cur.code # 200 THEN [code |-> cur.code, user |-> cur.user, seen |-> NoRow]
        ELSE IF ~PublishedEvent(db, eid)
             THEN [code |-> 404, user |-> cur.user, seen |-> NoRow]
        ELSE IF Cardinality(rows) > 1
             THEN [code |-> 500, user |-> cur.user, seen |-> NoRow]
        ELSE [code |-> 200, user |-> cur.user,
              seen |-> IF rows = {} THEN NoRow ELSE (CHOOSE f \in rows : TRUE).id]

add_favorite_commit(db, uid, eid, seen) ==
    IF seen # NoRow THEN Result(201, db)
    ELSE IF eid \notin EventIds(db) \/ ~FavoriteUniqueHolds(db, uid, eid)
         THEN ServerError(db)
    ELSE Result(201,
             [db EXCEPT !.favorites = @ \cup {[id |-> db.seq.favorite, user_id |-> uid,
                                               event_id |-> eid]},
                        !.seq.favorite = @ + 1])

add_favorite(db, tok, eid) ==
    LET rd == add_favorite_read(db, tok, eid) IN
    IF rd.code # 200 THEN Result(rd.code, db)
    ELSE add_favorite_commit(db, rd.user, eid, rd.seen)

\* remove_favorite deleting the rows of the event of every user.
remove_favorite_of_every_user(db, tok, eid) ==
    LET cur == get_current_user(db, tok) IN
    IF cur.code # 200 THEN Result(cur.code, db)
    ELSE Result(200, [db EXCEPT !.favorites = {f \in @ : f.event_id # eid}])

remove_favorite(db, tok, eid) ==
    LET cur == get_current_user(db, tok) IN
    IF cur.code # 200 THEN Result(cur.code, db)
    ELSE Result(200, [db EXCEPT !.favorites =
                          {f \in @ : ~(f.user_id = cur.user /\ f.event_id = eid)}])

\* The bodies: {"is_favorite": true}, {"is_favorite": false}, or the detail
\* of an error.
add_favorite_body(db, tok, eid) ==
    IF add_favorite(db, tok, eid).code = 201 THEN "is_favorite: true" ELSE "detail"

remove_favorite_body(db, tok, eid) ==
    IF remove_favorite(db, tok, eid).code = 200 THEN "is_favorite: false" ELSE "detail"

\* [code, body]: a read.
is_favorite(db, tok, eid) ==
    LET cur == get_current_user(db, tok)
        rows == FavoriteRows(db, cur.user, eid)
    IN  IF cur.code # 200 THEN [code |-> cur.code, body |-> "detail"]
        ELSE IF Cardinality(rows) > 1 THEN [code |-> 500, body |-> "detail"]
        ELSE [code |-> 200,
              body |-> IF rows # {} THEN "is_favorite: true" ELSE "is_favorite: false"]

(***************************************************************************)
(* The public reads.  A list is the set of the ids it returns, before      *)
(* ORDER BY, LIMIT and OFFSET.                                             *)
(***************************************************************************)
\* ilike '%q%' on one-character titles.
Ilike(title, q) == Lower(title) = Lower(q)

\* category_id 0 and q NULL are the absent filters.
list_events(db, category_id, q) ==
    {e \in EventIds(db) :
        /\ db.events[e].status = "published"
        /\ category_id # 0 => db.events[e].category_id = category_id
        /\ q # NULL => Ilike(db.events[e].title, q)}

get_event(db, eid) ==
    IF eid \in EventIds(db) /\ db.events[eid].status = "published" THEN 200 ELSE 404

\* list_my_favorites without the status condition of its WHERE.
list_my_favorites_any_status(db, tok) ==
    LET cur == get_current_user(db, tok) IN
    IF cur.code # 200 THEN [code |-> cur.code, ids |-> {}]
    ELSE [code |-> 200,
          ids |-> {e \in EventIds(db) : FavoriteRows(db, cur.user, e) # {}}]

\* [code, ids]
list_my_favorites(db, tok) ==
    LET cur == get_current_user(db, tok) IN
    IF cur.code # 200 THEN [code |-> cur.code, ids |-> {}]
    ELSE [code |-> 200,
          ids |-> {e \in EventIds(db) :
                      /\ FavoriteRows(db, cur.user, e) # {}
                      /\ db.events[e].status = "published"}]

(***************************************************************************)
(* The state machine.  Init is a deployed database: the accounts, the      *)
(* first category and, possibly, an archived event are rows written by the *)
(* deployment (no handler creates an admin or archives an event).          *)
(***************************************************************************)
Idle == [op |-> "idle", tok |-> BadToken, user |-> 0, event |-> 0, seen |-> NoRow,
         loaded |-> NULL]

\* User 1 is a, the others b, bb, ...; the password of user u is u times p.
SeedEmail(u) == IF u = 1 THEN <<"a">> ELSE [i \in 1..(u - 1) |-> "b"]

SeedPassword(u) == [i \in 1..u |-> "p"]

SeedUsers ==
    [u \in UserIds |->
        [email |-> SeedEmail(u),
         hashed_password |-> hash_password(SeedPassword(u)),
         role |-> IF u = 1 THEN "admin" ELSE IF u = 2 THEN "organizer" ELSE "user",
         is_blocked |-> FALSE]]

SeedCategory == [id |-> 1, name |-> "n1", slug |-> "s1"]

\* Its title, z, is one no request of the model sends.
ArchivedEvent == [status |-> "archived", organizer_id |-> 2, category_id |-> 1,
                  title |-> <<"z">>, is_free |-> TRUE, price_from |-> NoPrice,
                  moderation_comment |-> NULL]

\* The next id of each table.
SeedSeq == [user |-> NUsers + 1, event |-> 1, category |-> 2, rsvp |-> 1,
            favorite |-> 1, request |-> 1, ticket |-> 1]

Init ==
    /\ users = SeedUsers
    /\ tokens = {create_access_token(u, SeedUsers[u].role) : u \in UserIds}
    /\ categories = {SeedCategory}
    /\ \/ events = <<>> /\ seq = SeedSeq
       \/ events = <<ArchivedEvent>> /\ seq = [SeedSeq EXCEPT !.event = 2]
    /\ requests = <<>>
    /\ tickets = <<>>
    /\ rsvps = {}
    /\ favorites = {}
    /\ inflight = [p \in Procs |-> Idle]
    /\ resp = [op |-> "none", caller |-> 0, code |-> 0, body |-> {}]

Commit(db) ==
    /\ users' = db.users
    /\ categories' = db.categories
    /\ events' = db.events
    /\ rsvps' = db.rsvps
    /\ favorites' = db.favorites
    /\ requests' = db.requests
    /\ tickets' = db.tickets
    /\ seq' = db.seq

\* body is the set of event ids a list returns, {} for every other response.
Respond(op, tok, code) ==
    resp' = [op |-> op, caller |-> tok.sub, code |-> code, body |-> {}]

RespondList(op, tok, code, ids) ==
    resp' = [op |-> op, caller |-> tok.sub, code |-> code, body |-> ids]

\* A whole request: the handler's result is committed and answered.
Serve(op, tok, r) ==
    /\ Commit(r.db)
    /\ Respond(op, tok, r.code)
    /\ UNCHANGED <<tokens, inflight>>

\* The inputs.  AdminToken and OrganizerToken are the tokens of users 1 and 2
\* signed at deployment.
AdminToken == create_access_token(1, "admin")
OrganizerToken == create_access_token(2, "organizer")
Presented == tokens \cup {BadToken}
\* User 2 logs in (also with the email in another case and padded), mistypes
\* the password, or names no account.
Credentials == {<<SeedEmail(2), SeedPassword(2)>>, <<<<" ", "B">>, SeedPassword(2)>>,
                <<SeedEmail(2), <<"x">>>>, <<<<"c">>, SeedPassword(2)>>}
Titles == {<<"a">>, <<"b">>}
CategoryInputs == 1..MaxCategories
EventInputs == 1..MaxEvents
Comments == {NULL, <<" ">>, <<" ", "x">>}
RequestInputs == 1..MaxRequests
Reasons == {NULL, <<" ", "n", "o", " ">>}
\* The email of user 2 in another case and padded, and two new ones.
RegisterEmails == {<<" ", "B">>, <<"a", "b">>, <<"A", "B", " ">>, <<"b", "a">>}
\* With the email of user 2 as stored and one that is never registered.
EmailInputs == RegisterEmails \cup {<<"b">>, <<"a", "a">>}
PasswordInputs == {<<"p", "p">>, <<"q">>}

Login(cred) ==
    LET r == login_user(DB, cred[1], cred[2]) IN
    /\ tokens' = IF r.code = 200 THEN tokens \cup {r.token} ELSE tokens
    /\ Respond("login_user", r.token, r.code)
    /\ UNCHANGED <<users, categories, events, rsvps, favorites, requests, tickets, seq, inflight>>

CreateEvent(tok, payload) ==
    /\ seq.event <= MaxEvents
    /\ Serve("create_event", tok, create_event(DB, tok, payload))

UpdateEvent(tok, eid, payload) ==
    Serve("update_event", tok, update_event(DB, tok, eid, payload))

DeleteEventReq(tok, eid) == Serve("delete_event", tok, delete_event(DB, tok, eid))

SubmitEvent(tok, eid) ==
    Serve("submit_event_for_moderation", tok, submit_event_for_moderation(DB, tok, eid))

GetEventForManage(tok, eid) ==
    Serve("get_event_for_manage", tok, get_event_for_manage(DB, tok, eid))

ListEventRsvps(tok, eid) ==
    Serve("list_event_rsvps_for_organizer", tok,
          list_event_rsvps_for_organizer(DB, tok, eid))

PublishEvent(tok, eid, body) ==
    Serve("publish_event", tok, publish_event(DB, tok, eid, body))

RejectEvent(tok, eid, body) ==
    Serve("reject_event", tok, reject_event(DB, tok, eid, body))

DeleteEventAsAdmin(tok, eid) ==
    Serve("delete_event_as_admin", tok, delete_event_as_admin(DB, tok, eid))

UpdateUserRole(tok, uid, role) ==
    Serve("update_user_role", tok, update_user_role(DB, tok, uid, role))

UpdateUserBlock(tok, uid, b) ==
    Serve("update_user_block", tok, update_user_block(DB, tok, uid, b))

\* Bounded: no insert beyond MaxCategories rows.
CreateCategory(tok, name, slug) ==
    LET r == create_category(DB, tok, name, slug) IN
    /\ r.code = 201 => Cardinality(categories) < MaxCategories
    /\ Serve("create_category", tok, r)

SetEventRsvp(tok, eid, status) ==
    /\ seq.rsvp <= MaxRows
    /\ Serve("set_event_rsvp", tok, set_event_rsvp(DB, tok, eid, status))

AddFavorite(tok, eid) ==
    /\ seq.favorite <= MaxRows
    /\ Serve("add_favorite", tok, add_favorite(DB, tok, eid))

RemoveFavorite(tok, eid) ==
    Serve("remove_favorite", tok, remove_favorite(DB, tok, eid))

\* The reads write nothing.
GetEvent(eid) ==
    /\ Respond("get_event", BadToken, get_event(DB, eid))
    /\ UNCHANGED <<users, tokens, categories, events, rsvps, favorites, requests, tickets,
                   seq, inflight>>

ListEvents(category_id, q) ==
    /\ RespondList("list_events", BadToken, 200, list_events(DB, category_id, q))
    /\ UNCHANGED <<users, tokens, categories, events, rsvps, favorites, requests, tickets,
                   seq, inflight>>

IsFavorite(tok, eid) ==
    /\ Respond("is_favorite", tok, is_favorite(DB, tok, eid).code)
    /\ UNCHANGED <<users, tokens, categories, events, rsvps, favorites, requests, tickets, seq,
                   inflight>>

ListMyFavorites(tok) ==
    LET r == list_my_favorites(DB, tok) IN
    /\ RespondList("list_my_favorites", tok, r.code, r.ids)
    /\ UNCHANGED <<users, tokens, categories, events, rsvps, favorites, requests, tickets,
                   seq, inflight>>

\* A request in two steps: it reads (and is answered at once when the read
\* refuses it), other requests run, it commits.
Refuse(op, tok, code) ==
    /\ Respond(op, tok, code)
    /\ UNCHANGED <<users, tokens, categories, events, rsvps, favorites, requests, tickets,
                   seq, inflight>>

Hold(p, op, tok, rd, eid) ==
    /\ inflight' = [inflight EXCEPT ![p] = [op |-> op, tok |-> tok, user |-> rd.user,
                                            event |-> eid, seen |-> rd.seen,
                                            loaded |-> NULL]]
    /\ UNCHANGED <<users, tokens, categories, events, rsvps, favorites, requests, tickets,
                   seq, resp>>

Finish(p, r) ==
    /\ Commit(r.db)
    /\ Respond(inflight[p].op, inflight[p].tok, r.code)
    /\ inflight' = [inflight EXCEPT ![p] = Idle]
    /\ UNCHANGED tokens

SetEventRsvpBegin(p, tok, eid) ==
    /\ inflight[p] = Idle
    /\ seq.rsvp <= MaxRows
    /\ LET rd == set_event_rsvp_read(DB, tok, eid) IN
       IF rd.code # 200 THEN Refuse("set_event_rsvp", tok, rd.code)
       ELSE Hold(p, "set_event_rsvp", tok, rd, eid)

SetEventRsvpCommit(p, status) ==
    /\ inflight[p].op = "set_event_rsvp"
    /\ Finish(p, set_event_rsvp_commit(DB, inflight[p].user, inflight[p].event, status,
                                       inflight[p].seen))

AddFavoriteBegin(p, tok, eid) ==
    /\ inflight[p] = Idle
    /\ seq.favorite <= MaxRows
    /\ LET rd == add_favorite_read(DB, tok, eid) IN
       IF rd.code # 200 THEN Refuse("add_favorite", tok, rd.code)
       ELSE Hold(p, "add_favorite", tok, rd, eid)

AddFavoriteCommit(p) ==
    /\ inflight[p].op = "add_favorite"
    /\ Finish(p, add_favorite_commit(DB, inflight[p].user, inflight[p].event,
                                     inflight[p].seen))

\* The organizer requests, each in two steps; `event` holds the request id.
CreateOrganizerRequestBegin(p, tok) ==
    /\ inflight[p] = Idle
    /\ seq.request <= MaxRequests
    /\ LET rd == create_organizer_request_read(DB, tok) IN
       IF rd.code # 200 THEN Refuse("create_organizer_request", tok, rd.code)
       ELSE Hold(p, "create_organizer_request", tok, rd, 0)

CreateOrganizerRequestCommit(p) ==
    /\ inflight[p].op = "create_organizer_request"
    /\ Finish(p, create_organizer_request_commit(DB, inflight[p].user))

ApproveOrganizerRequestBegin(p, tok, rid) ==
    /\ inflight[p] = Idle
    /\ LET rd == approve_organizer_request_read(DB, tok, rid) IN
       IF rd.code # 200 THEN Refuse("approve_organizer_request", tok, rd.code)
       ELSE /\ inflight' = [inflight EXCEPT ![p] =
                               [op |-> "approve_organizer_request", tok |-> tok,
                                user |-> rd.user, event |-> rid, seen |-> rd.seen,
                                loaded |-> rd.loaded]]
            /\ UNCHANGED <<users, tokens, categories, events, rsvps, favorites,
                           requests, tickets, seq, resp>>

ApproveOrganizerRequestCommit(p) ==
    /\ inflight[p].op = "approve_organizer_request"
    /\ Finish(p, approve_organizer_request_commit(DB, inflight[p].event,
                                                   inflight[p].seen,
                                                   inflight[p].loaded))

RejectOrganizerRequestBegin(p, tok, rid) ==
    /\ inflight[p] = Idle
    /\ LET rd == reject_organizer_request_read(DB, tok, rid) IN
       IF rd.code # 200 THEN Refuse("reject_organizer_request", tok, rd.code)
       ELSE Hold(p, "reject_organizer_request", tok, rd, rid)

RejectOrganizerRequestCommit(p, reason) ==
    /\ inflight[p].op = "reject_organizer_request"
    /\ Finish(p, reject_organizer_request_commit(DB, inflight[p].event, reason))

\* Payloads of update_event that carry is_free, price_from, both or neither.
Prices == {0, 5}
PricePayloads ==
    LET base == [title |-> NULL, category_id |-> 0] IN
    {base}
    \cup {[title |-> NULL, category_id |-> 0, is_free |-> f] : f \in BOOLEAN}
    \cup {[title |-> NULL, category_id |-> 0, price_from |-> n] : n \in Prices}
    \cup {[title |-> NULL, category_id |-> 0, is_free |-> f, price_from |-> n] :
              f \in BOOLEAN, n \in Prices}

\* Requests served in one step.
RegisterUser(email, password) ==
    /\ seq.user <= NUsers + MaxRegistered
    /\ Serve("register_user", BadToken, register_user(DB, email, password))

UpdateMe(tok) == Serve("update_me", tok, update_me(DB, tok))

CreateOrganizerRequest(tok) ==
    /\ seq.request <= MaxRequests
    /\ Serve("create_organizer_request", tok, create_organizer_request(DB, tok))

ApproveOrganizerRequest(tok, rid) ==
    Serve("approve_organizer_request", tok, approve_organizer_request(DB, tok, rid))

TicketInputs == 1..MaxTickets
Replies == {<<"o", "k", " ">>, <<"n", "o">>}

CreateSupportTicket(tok) ==
    /\ seq.ticket <= MaxTickets
    /\ Serve("create_support_ticket", tok, create_support_ticket(DB, tok))

ReplyTicket(tok, tid, reply) == Serve("reply_ticket", tok, reply_ticket(DB, tok, tid, reply))

CloseTicket(tok, tid) == Serve("close_ticket", tok, close_ticket(DB, tok, tid))

AdminDeleteSupportTicket(tok, tid) ==
    Serve("admin_delete_support_ticket", tok, admin_delete_support_ticket(DB, tok, tid))

\* update_event and publish_event in two steps.
UpdateEventBegin(p, tok, eid, title) ==
    /\ inflight[p] = Idle
    /\ LET rd == update_event_read(DB, tok, eid, title) IN
       IF rd.code # 200 THEN Refuse("update_event", tok, rd.code)
       ELSE /\ inflight' = [inflight EXCEPT ![p] =
                               [op |-> "update_event", tok |-> tok, user |-> rd.user,
                                event |-> eid, seen |-> rd.seen, loaded |-> rd.loaded]]
            /\ UNCHANGED <<users, tokens, categories, events, rsvps, favorites,
                           requests, tickets, seq, resp>>

UpdateEventCommit(p) ==
    /\ inflight[p].op = "update_event"
    /\ Finish(p, update_event_commit(DB, inflight[p].event, inflight[p].seen,
                                     inflight[p].loaded))

PublishEventBegin(p, tok, eid) ==
    /\ inflight[p] = Idle
    /\ LET rd == publish_event_read(DB, tok, eid) IN
       IF rd.code # 200 THEN Refuse("publish_event", tok, rd.code)
       ELSE Hold(p, "publish_event", tok, rd, eid)

PublishEventCommit(p, body) ==
    /\ inflight[p].op = "publish_event"
    /\ Finish(p, publish_event_commit(DB, inflight[p].event, body))

\* Registration in two steps; `loaded` holds normalized_email.
RegisterUserBegin(p, email) ==
    /\ inflight[p] = Idle
    /\ seq.user <= NUsers + MaxRegistered
    /\ LET rd == register_user_read(DB, email) IN
       IF rd.code # 200 THEN Refuse("register_user", BadToken, rd.code)
       ELSE /\ inflight' = [inflight EXCEPT ![p] =
                               [op |-> "register_user", tok |-> BadToken,
                                user |-> 0, event |-> 0, seen |-> NoRow,
                                loaded |-> rd.loaded]]
            /\ UNCHANGED <<users, tokens, categories, events, rsvps, favorites,
                           requests, tickets, seq, resp>>

RegisterUserCommit(p, password) ==
    /\ inflight[p].op = "register_user"
    /\ Finish(p, register_user_commit(DB, inflight[p].loaded, password))

ForgotPassword(email, smtp) ==
    LET r == forgot_password(DB, email, smtp) IN
    /\ Commit(r.db)
    /\ Respond("forgot_password", BadToken, r.code)
    /\ tokens' = IF r.token = BadToken THEN tokens ELSE tokens \cup {r.token}
    /\ UNCHANGED inflight

ResetPassword(tok, new_password) ==
    Serve("reset_password", tok, reset_password(DB, tok, new_password))

ReadMe(tok) == Serve("read_me", tok, read_me(DB, tok))

(***************************************************************************)
(* Spec: the moderation life cycle of events, requests served one at a     *)
(* time.                                                                   *)
(***************************************************************************)
Next ==
    \/ \E tok \in Presented : CreateEvent(tok, [title |-> <<"a">>, category_id |-> 1])
    \/ \E tok \in Presented, e \in EventInputs :
           UpdateEvent(tok, e, [title |-> <<"b">>, category_id |-> 0])
    \/ \E tok \in Presented, e \in EventInputs : DeleteEventReq(tok, e)
    \/ \E tok \in Presented, e \in EventInputs : SubmitEvent(tok, e)
    \/ \E tok \in Presented, e \in EventInputs : GetEventForManage(tok, e)
    \/ \E tok \in Presented, e \in EventInputs : ListEventRsvps(tok, e)
    \/ \E tok \in Presented, e \in EventInputs, b \in {NULL, <<"x">>} : PublishEvent(tok, e, b)
    \/ \E tok \in Presented, e \in EventInputs, b \in Comments : RejectEvent(tok, e, b)
    \/ \E tok \in Presented, e \in EventInputs : DeleteEventAsAdmin(tok, e)
    \/ \E tok \in Presented, r \in UserRole : UpdateUserRole(tok, 2, r)

Spec == Init /\ [][Next]_vars

\* SpecLife: the same requests on a database that starts without events, by a
\* server that never stops answering: while a request can be served, one is.
InitLife == Init /\ events = <<>>

SpecLife == InitLife /\ [][Next]_vars /\ WF_vars(Next)

(***************************************************************************)
(* SpecAuth: accounts change role and get blocked while the tokens signed  *)
(* earlier stay in use, and new ones are signed at login.                  *)
(***************************************************************************)
NextAuth ==
    \/ \E cred \in Credentials : Login(cred)
    \/ \E tok \in Presented, r \in UserRole : UpdateUserRole(tok, 2, r)
    \/ \E tok \in Presented, u \in UserIds, b \in BOOLEAN : UpdateUserBlock(tok, u, b)
    \/ \E tok \in Presented : CreateEvent(tok, [title |-> <<"a">>, category_id |-> 1])
    \/ \E tok \in Presented, e \in EventInputs : DeleteEventAsAdmin(tok, e)

SpecAuth == Init /\ [][NextAuth]_vars

(***************************************************************************)
(* SpecRead: the public reads of events that are created, published,       *)
(* edited by their organizer (which sends them back to moderation) and     *)
(* put in favorites.                                                       *)
(***************************************************************************)
NextRead ==
    \/ CreateEvent(OrganizerToken, [title |-> <<"a">>, category_id |-> 1])
    \/ \E e \in EventInputs : PublishEvent(AdminToken, e, NULL)
    \/ \E e \in EventInputs :
           UpdateEvent(OrganizerToken, e, [title |-> <<"B">>, category_id |-> 0])
    \/ \E tok \in Presented, e \in EventInputs : AddFavorite(tok, e)
    \/ \E tok \in Presented, e \in EventInputs : RemoveFavorite(tok, e)
    \/ \E e \in EventInputs : GetEvent(e)
    \/ \E c \in {0} \cup CategoryInputs, q \in {NULL} \cup Titles : ListEvents(c, q)
    \/ \E tok \in Presented : ListMyFavorites(tok)
    \/ \E tok \in Presented, e \in EventInputs : IsFavorite(tok, e)

SpecRead == Init /\ [][NextRead]_vars

(***************************************************************************)
(* SpecRows: events with their category, their RSVP rows and their         *)
(* favorite rows, created and deleted.                                     *)
(***************************************************************************)
NextRows ==
    \/ \E tok \in Presented, c \in CategoryInputs :
           CreateEvent(tok, [title |-> <<"a">>, category_id |-> c])
    \/ CreateCategory(AdminToken, "n2", "s2")
    \/ \E e \in EventInputs, c \in CategoryInputs :
           UpdateEvent(AdminToken, e, [title |-> <<"b">>, category_id |-> c])
    \/ \E e \in EventInputs : PublishEvent(AdminToken, e, NULL)
    \/ \E e \in EventInputs : SetEventRsvp(AdminToken, e, "going")
    \/ \E e \in EventInputs : AddFavorite(OrganizerToken, e)
    \/ \E tok \in Presented, e \in EventInputs : DeleteEventReq(tok, e)
    \/ \E tok \in Presented, e \in EventInputs : DeleteEventAsAdmin(tok, e)

SpecRows == Init /\ [][NextRows]_vars

(***************************************************************************)
(* SpecOwner: the admin and an organizer each own events, in every status, *)
(* with RSVP rows, and each calls the organizer's handlers on them.        *)
(***************************************************************************)
NextOwner ==
    \/ \E tok \in {AdminToken, OrganizerToken} :
           CreateEvent(tok, [title |-> <<"a">>, category_id |-> 1])
    \/ \E e \in EventInputs : PublishEvent(AdminToken, e, NULL)
    \/ \E e \in EventInputs : RejectEvent(AdminToken, e, NULL)
    \/ \E e \in EventInputs : SetEventRsvp(AdminToken, e, "going")
    \/ \E tok \in Presented, e \in EventInputs :
           UpdateEvent(tok, e, [title |-> <<"b">>, category_id |-> 0])
    \/ \E tok \in Presented, e \in EventInputs : DeleteEventReq(tok, e)
    \/ \E tok \in Presented, e \in EventInputs : SubmitEvent(tok, e)
    \/ \E tok \in Presented, e \in EventInputs : GetEventForManage(tok, e)
    \/ \E tok \in Presented, e \in EventInputs : ListEventRsvps(tok, e)

SpecOwner == Init /\ [][NextOwner]_vars

(***************************************************************************)
(* SpecConc: requests whose read and commit are separate steps, so that    *)
(* two of them read before either commits.                                 *)
(***************************************************************************)
NextConc ==
    \/ CreateEvent(OrganizerToken, [title |-> <<"a">>, category_id |-> 1])
    \/ PublishEvent(AdminToken, 1, NULL)
    \/ DeleteEventAsAdmin(AdminToken, 1)
    \/ \E name \in {"n1", "n2"}, slug \in {"s1", "s2"} :
           CreateCategory(AdminToken, name, slug)
    \/ \E p \in Procs, tok \in tokens : SetEventRsvpBegin(p, tok, 1)
    \/ \E p \in Procs : SetEventRsvpCommit(p, "going")
    \/ \E p \in Procs, tok \in tokens : AddFavoriteBegin(p, tok, 1)
    \/ \E p \in Procs : AddFavoriteCommit(p)

SpecConc == Init /\ [][NextConc]_vars

(***************************************************************************)
(* SpecRequests: user 2, given every role in turn by the admin, asks to    *)
(* become an organizer; admins approve and reject.  The read and           *)
(* the commit of a request are separate steps.                             *)
(***************************************************************************)
NextRequests ==
    \/ \E r \in UserRole : UpdateUserRole(AdminToken, 2, r)
    \/ \E p \in Procs, tok \in Presented : CreateOrganizerRequestBegin(p, tok)
    \/ \E p \in Procs : CreateOrganizerRequestCommit(p)
    \/ \E p \in Procs, tok \in Presented, rid \in RequestInputs :
           ApproveOrganizerRequestBegin(p, tok, rid)
    \/ \E p \in Procs : ApproveOrganizerRequestCommit(p)
    \/ \E p \in Procs, tok \in Presented, rid \in RequestInputs :
           RejectOrganizerRequestBegin(p, tok, rid)
    \/ \E p \in Procs, reason \in Reasons : RejectOrganizerRequestCommit(p, reason)

SpecRequests == Init /\ [][NextRequests]_vars

(***************************************************************************)
(* SpecUsers: accounts are registered (the read and the INSERT are         *)
(* separate steps), log in and ask for a password reset.                   *)
(***************************************************************************)
NextUsers ==
    \/ \E p \in Procs, email \in RegisterEmails : RegisterUserBegin(p, email)
    \/ \E p \in Procs, password \in PasswordInputs : RegisterUserCommit(p, password)
    \/ \E email \in EmailInputs, password \in PasswordInputs : Login(<<email, password>>)
    \/ \E email \in EmailInputs, smtp \in SmtpStates : ForgotPassword(email, smtp)

SpecUsers == Init /\ [][NextUsers]_vars

(***************************************************************************)
(* SpecReset: passwords are reset with the tokens that forgot_password     *)
(* signs, while every signed token is also tried as a bearer token and as  *)
(* a reset token.                                                          *)
(***************************************************************************)
NextReset ==
    \/ \E cred \in Credentials \cup {<<SeedEmail(2), <<"q">>>>} : Login(cred)
    \/ \E email \in {<<"a">>, <<" ", "B">>, <<"c">>}, smtp \in SmtpStates :
           ForgotPassword(email, smtp)
    \/ \E tok \in Presented, password \in PasswordInputs : ResetPassword(tok, password)
    \/ \E tok \in Presented : ReadMe(tok)
    \/ \E b \in BOOLEAN : UpdateUserBlock(AdminToken, 2, b)

SpecReset == Init /\ [][NextReset]_vars

(***************************************************************************)
(* SpecEdit: the organizer and the admin edit events while the admin       *)
(* publishes them; every edit and every publication reads, lets other      *)
(* requests run, and commits.                                              *)
(***************************************************************************)
NextEdit ==
    \/ CreateEvent(OrganizerToken, [title |-> <<"a">>, category_id |-> 1])
    \/ \E e \in EventInputs : SubmitEvent(OrganizerToken, e)
    \/ \E p \in Procs, tok \in Presented, e \in EventInputs, title \in Titles :
           UpdateEventBegin(p, tok, e, title)
    \/ \E p \in Procs : UpdateEventCommit(p)
    \/ \E p \in Procs, tok \in Presented, e \in EventInputs : PublishEventBegin(p, tok, e)
    \/ \E p \in Procs : PublishEventCommit(p, NULL)

SpecEdit == Init /\ [][NextEdit]_vars

(***************************************************************************)
(* SpecTickets: users open support tickets; admins reply to them, close    *)
(* them and delete them.                                                   *)
(***************************************************************************)
NextTickets ==
    \/ \E tok \in Presented : CreateSupportTicket(tok)
    \/ \E tok \in Presented, tid \in TicketInputs, reply \in Replies :
           ReplyTicket(tok, tid, reply)
    \/ \E tok \in Presented, tid \in TicketInputs : CloseTicket(tok, tid)
    \/ \E tid \in TicketInputs : AdminDeleteSupportTicket(AdminToken, tid)

SpecTickets == Init /\ [][NextTickets]_vars

(***************************************************************************)
(* SpecPrice: the organizer creates events, free by default, and every     *)
(* caller edits whether they are free and what they cost.                  *)
(***************************************************************************)
NextPrice ==
    \/ CreateEvent(OrganizerToken, [title |-> <<"a">>, category_id |-> 1])
    \/ \E tok \in Presented, e \in EventInputs, payload \in PricePayloads :
           UpdateEvent(tok, e, payload)
    \/ \E e \in EventInputs : DeleteEventReq(OrganizerToken, e)

SpecPrice == Init /\ [][NextPrice]_vars

(***************************************************************************)
(* SpecPriv: accounts register, log in, edit their profile, ask to become  *)
(* organizers and reset passwords, callers of every role try the admin's   *)
(* requests on accounts and organizer requests, and events are created     *)
(* and published.  The event table starts empty.                           *)
(***************************************************************************)
NextPriv ==
    \/ RegisterUser(<<"A", "B", " ">>, <<"q">>)
    \/ Login(<<SeedEmail(2), SeedPassword(2)>>)
    \/ \E tok \in Presented : UpdateMe(tok)
    \/ \E tok \in Presented : CreateOrganizerRequest(tok)
    \/ \E tok \in Presented, rid \in RequestInputs : ApproveOrganizerRequest(tok, rid)
    \/ \E tok \in Presented, r \in UserRole : UpdateUserRole(tok, 2, r)
    \/ \E tok \in Presented, b \in BOOLEAN : UpdateUserBlock(tok, 2, b)
    \/ CreateEvent(OrganizerToken, [title |-> <<"a">>, category_id |-> 1])
    \/ PublishEvent(AdminToken, 1, NULL)
    \/ ForgotPassword(SeedEmail(2), "accepts")
    \/ \E tok \in Presented : ResetPassword(tok, <<"q">>)

SpecPriv == InitLife /\ [][NextPriv]_vars

(***************************************************************************)
(* Claims.                                                                 *)
(***************************************************************************)
StatusOf(evs, e) == IF e \in DOMAIN evs THEN evs[e].status ELSE "absent"

BecomesPublished(e) ==
    StatusOf(events', e) = "published" /\ StatusOf(events, e) # "published"

\* A token of an account that passes get_current_user.
Authenticated(tok) == get_current_user(DB, tok).code = 200

StoredRole(tok) == users[tok.sub].role

\* C1: an event becomes published only in a step that answers a publish_event
\* request with 200 to a caller whose stored role is admin; no request of a
\* caller whose stored role is user or organizer makes an event published.
C1_PublishedOnlyByAdmin ==
    [][\A e \in EventInputs :
          BecomesPublished(e) =>
              /\ resp'.op = "publish_event"
              /\ resp'.code = 200
              /\ resp'.caller \in DOMAIN users
              /\ users[resp'.caller].role = "admin"]_vars

\* An admin has published an event; the admin is user 2, promoted after the
\* token, which still says organizer, was signed.
C1_Witness ==
    /\ resp.op = "publish_event" /\ resp.code = 200 /\ resp.caller = 2
    /\ \E e \in DOMAIN events : events[e].status = "published"

\* C2 as stated: an event enters published only from pending_moderation.
C2_PublishedOnlyFromPending ==
    [][\A e \in EventInputs :
          BecomesPublished(e) => StatusOf(events, e) = "pending_moderation"]_vars

\* C2, amended: an event enters published only by publish_event, from any
\* other stored status (draft, pending_moderation, rejected or archived):
\* publish_event answers an admin 200 and publishes the event whenever it
\* exists and is not published, and 400 without a change when it is.
C2_PublishedFromAnyOtherStatus ==
    /\ [](\A tok \in Presented, e \in DOMAIN events, b \in {NULL, <<"x">>} :
            role_required(AdminOnly, DB, tok).code = 200 =>
                LET r == publish_event(DB, tok, e, b) IN
                IF events[e].status = "published" THEN r = Result(400, DB)
                ELSE /\ r.code = 200
                     /\ r.db = [DB EXCEPT !.events[e].status = "published",
                                          !.events[e].moderation_comment = b])
    /\ [][\A e \in EventInputs :
            BecomesPublished(e) =>
                /\ resp'.op = "publish_event"
                /\ StatusOf(events, e) \in EventStatus \ {"published"}]_vars

\* The archived event of the deployment is published with its title untouched:
\* submit refuses an archived event, so it was published straight from archived.
C2_Witness ==
    /\ resp.op = "publish_event" /\ resp.code = 200
    /\ 1 \in DOMAIN events
    /\ events[1].status = "published" /\ events[1].title = <<"z">>

\* The events a reader asks for, with the titles and categories of the model.
Queries == {NULL} \cup Titles \cup {<<"B">>, <<"z">>}

\* C3: get_event answers 404 for every event that is not published (and for
\* every id that names none); list_events, whatever the category and the
\* search text, and list_my_favorites, whoever calls, return published events
\* only, and so does the body of every list response.
C3_PublicReadsOnlyPublished ==
    /\ \A e \in EventInputs :
           StatusOf(events, e) # "published" => get_event(DB, e) = 404
    /\ \A c \in {0} \cup CategoryInputs, q \in Queries :
           \A e \in list_events(DB, c, q) : StatusOf(events, e) = "published"
    /\ \A tok \in Presented :
           \A e \in list_my_favorites(DB, tok).ids : StatusOf(events, e) = "published"
    /\ \A e \in resp.body : StatusOf(events, e) = "published"

\* A user lists favorites while holding a favorite row for an event that was
\* published and has gone back to pending_moderation, and another for a
\* published event: the list has the second only.
C3_Witness ==
    /\ resp.op = "list_my_favorites" /\ resp.code = 200 /\ resp.body # {}
    /\ \E e \in DOMAIN events :
           /\ events[e].status = "pending_moderation"
           /\ FavoriteRows(DB, resp.caller, e) # {}
           /\ e \notin resp.body

\* The guarded requests of the model with the roles their route allows.
Payloads == {[title |-> t, category_id |-> c] : t \in {NULL, <<"a">>}, c \in {0, 1}}

GuardedResults(tok) ==
    {[allowed |-> OrganizerOrAdmin, r |-> create_event(DB, tok, [title |-> <<"a">>, category_id |-> c])] :
         c \in CategoryInputs}
    \cup {[allowed |-> OrganizerOrAdmin, r |-> update_event(DB, tok, e, pl)] :
              e \in EventInputs, pl \in Payloads}
    \cup {[allowed |-> OrganizerOrAdmin, r |-> delete_event(DB, tok, e)] : e \in EventInputs}
    \cup {[allowed |-> OrganizerOrAdmin, r |-> submit_event_for_moderation(DB, tok, e)] :
              e \in EventInputs}
    \cup {[allowed |-> OrganizerOrAdmin, r |-> get_event_for_manage(DB, tok, e)] :
              e \in EventInputs}
    \cup {[allowed |-> OrganizerOrAdmin, r |-> list_event_rsvps_for_organizer(DB, tok, e)] :
              e \in EventInputs}
    \cup {[allowed |-> AdminOnly, r |-> publish_event(DB, tok, e, NULL)] : e \in EventInputs}
    \cup {[allowed |-> AdminOnly, r |-> reject_event(DB, tok, e, NULL)] : e \in EventInputs}
    \cup {[allowed |-> AdminOnly, r |-> delete_event_as_admin(DB, tok, e)] : e \in EventInputs}
    \cup {[allowed |-> AdminOnly, r |-> update_user_role(DB, tok, u, ro)] :
              u \in UserIds, ro \in UserRole}
    \cup {[allowed |-> AdminOnly, r |-> update_user_block(DB, tok, u, b)] :
              u \in UserIds, b \in BOOLEAN}
    \cup {[allowed |-> AdminOnly, r |-> create_category(DB, tok, "n2", "s2")]}

AdminOps == {"publish_event", "reject_event", "delete_event_as_admin",
             "update_user_role", "update_user_block", "create_category"}

OrganizerOps == {"create_event", "update_event", "delete_event",
                 "submit_event_for_moderation", "get_event_for_manage",
                 "list_event_rsvps_for_organizer"}

\* C4: a guarded request succeeds only for a caller whose stored role, at the
\* time of the request, is in the allowed set of the route; for a caller who
\* passes get_current_user and whose stored role is not in it, the answer is
\* 403 and the database is the one before, whatever role the token claims.
C4_StoredRoleDecides ==
    /\ [](\A tok \in Presented : \A g \in GuardedResults(tok) :
            /\ g.r.code \in Success => Authenticated(tok) /\ StoredRole(tok) \in g.allowed
            /\ Authenticated(tok) /\ StoredRole(tok) \notin g.allowed => g.r = Result(403, DB))
    /\ [][/\ resp'.op \in AdminOps /\ resp'.code \in Success
               => resp'.caller \in DOMAIN users /\ users[resp'.caller].role = "admin"
          /\ resp'.op \in OrganizerOps /\ resp'.code \in Success
               => resp'.caller \in DOMAIN users
                  /\ users[resp'.caller].role \in OrganizerOrAdmin]_vars

\* User 2, promoted to admin, deletes an event as admin with a token signed
\* when the account was an organizer: every token of user 2 says organizer.
C4_Witness ==
    /\ resp.op = "delete_event_as_admin" /\ resp.code = 204 /\ resp.caller = 2
    /\ \A t \in tokens : t.sub = 2 => t.role = "organizer"

\* C5: for a caller who passes get_current_user, whose stored role is not
\* admin and who is not the organizer of an existing event, update_event,
\* delete_event, submit_event_for_moderation, get_event_for_manage and
\* list_event_rsvps_for_organizer each answer 403 and leave the database (the
\* event, its status, its RSVP rows) as it was, in every status of the event.
C5_ForeignEventForbidden ==
    \A tok \in Presented, e \in DOMAIN events :
        Authenticated(tok) /\ StoredRole(tok) # "admin" /\ events[e].organizer_id # tok.sub =>
            /\ \A pl \in Payloads : update_event(DB, tok, e, pl) = Result(403, DB)
            /\ delete_event(DB, tok, e) = Result(403, DB)
            /\ submit_event_for_moderation(DB, tok, e) = Result(403, DB)
            /\ get_event_for_manage(DB, tok, e) = Result(403, DB)
            /\ list_event_rsvps_for_organizer(DB, tok, e) = Result(403, DB)

\* The organizer has asked to delete an event and got 403: every event id
\* names an event of the admin, one of them with an RSVP row.
C5_Witness ==
    /\ resp.op = "delete_event" /\ resp.code = 403 /\ resp.caller = 2
    /\ users[2].role = "organizer"
    /\ DOMAIN events = EventInputs
    /\ \A e \in DOMAIN events : events[e].organizer_id = 1
    /\ rsvps # {}

\* The requests of the model that pass through get_current_user.
CurrentUserResults(tok) ==
    {g.r : g \in GuardedResults(tok)}
    \cup {set_event_rsvp(DB, tok, e, st) : e \in EventInputs, st \in RSVPStatus}
    \cup {add_favorite(DB, tok, e) : e \in EventInputs}
    \cup {remove_favorite(DB, tok, e) : e \in EventInputs}

Blocked(u) == u \in DOMAIN users /\ users[u].is_blocked

Passwords == {SeedPassword(u) : u \in UserIds} \cup {<<"x">>}

\* C6: while an account is blocked, every request with a token of it, signed
\* before the block or not, is answered 403 by get_current_user and leaves
\* the database as it was, and a login with its email, whatever the password,
\* issues no token.  Requests are served one at a time.
C6_BlockedIsRejected ==
    /\ [](\A tok \in tokens : Blocked(tok.sub) =>
            /\ get_current_user(DB, tok).code = 403
            /\ \A r \in CurrentUserResults(tok) : r = Result(403, DB)
            /\ list_my_favorites(DB, tok) = [code |-> 403, ids |-> {}])
    /\ [](\A u \in UserIds, pw \in Passwords :
            \A name \in {SeedEmail(u), <<" ">> \o SeedEmail(u), <<"B">>} :
            Blocked(u) /\ NormalizeEmail(name) = users[u].email =>
                LET r == login_user(DB, name, pw) IN r.code # 200 /\ r.token = BadToken)
    /\ [][/\ Blocked(resp'.caller) /\ resp'.op # "login_user" =>
               /\ resp'.code = 403
               /\ UNCHANGED <<users, categories, events, rsvps, favorites, requests, tickets, seq>>
          /\ resp'.op = "login_user" /\ Blocked(2) => tokens' = tokens /\ resp'.code # 200]_vars

\* Blocked user 2, still an organizer, has asked to create an event with a
\* token signed before the block and got 403.
C6_Witness ==
    /\ resp.op = "create_event" /\ resp.code = 403 /\ resp.caller = 2
    /\ users[2].is_blocked /\ users[2].role = "organizer"

\* C7: in every state, also when two requests of one user for one event have
\* both read before either commits, there is at most one event_rsvp row and
\* at most one favorite_event row for each user and event.
C7_OneRowPerUserAndEvent ==
    \A u \in UserIds, e \in EventInputs :
        /\ Cardinality(RsvpRows(DB, u, e)) <= 1
        /\ Cardinality(FavoriteRows(DB, u, e)) <= 1

\* Two set_event_rsvp requests of one user for one event both read no row;
\* the first has committed its row and the second is about to commit.
C7_Witness ==
    \E p \in Procs, o \in Procs :
        /\ p # o
        /\ inflight[p].op = "set_event_rsvp" /\ inflight[p].seen = NoRow
        /\ RsvpRows(DB, inflight[p].user, inflight[p].event) # {}
        /\ resp.op = "set_event_rsvp" /\ resp.code = 200
        /\ resp.caller = inflight[p].user

RefIntegrity(db) ==
    /\ \A e \in EventIds(db) :
           /\ db.events[e].category_id \in CategoryIds(db)
           /\ db.events[e].organizer_id \in DOMAIN db.users
    /\ \A r \in db.rsvps : r.event_id \in EventIds(db) /\ r.user_id \in DOMAIN db.users
    /\ \A f \in db.favorites : f.event_id \in EventIds(db) /\ f.user_id \in DOMAIN db.users

RowsOf(db, e) ==
    {r \in db.rsvps : r.event_id = e} \cup {f \in db.favorites : f.event_id = e}

\* C8: every event references an existing category and an existing organizer
\* and every RSVP and favorite row an existing event; create_event with a
\* category_id that names no category answers an organizer or admin 400 and
\* creates nothing; a delete_event or delete_event_as_admin that succeeds
\* leaves neither the event nor a row of it.
C8_ReferentialIntegrity ==
    /\ RefIntegrity(DB)
    /\ \A tok \in Presented, c \in (1..(MaxCategories + 1)) \ CategoryIds(DB) :
           LET r == create_event(DB, tok, [title |-> <<"a">>, category_id |-> c]) IN
           /\ r.code \notin Success /\ r.db = DB
           /\ role_required(OrganizerOrAdmin, DB, tok).code = 200 => r.code = 400
    /\ \A tok \in Presented, e \in EventInputs :
           \A r \in {delete_event(DB, tok, e), delete_event_as_admin(DB, tok, e)} :
               r.code = 204 =>
                   e \notin EventIds(r.db) /\ RowsOf(r.db, e) = {} /\ RefIntegrity(r.db)

\* The only event there has been, which had an RSVP row and a favorite row,
\* has just been deleted by delete_event: no row is left.
C8_Witness ==
    /\ resp.op = "delete_event" /\ resp.code = 204
    /\ seq.event = 2 /\ DOMAIN events = {}
    /\ seq.rsvp = 2 /\ seq.favorite = 2
    /\ rsvps = {} /\ favorites = {}

\* C9 as stated: a request that is refused is answered 400, 401, 403 or 404
\* and leaves the database as it was.
C9_RefusedIs4xxAndUnchanged ==
    [][resp'.code \notin Success =>
          /\ resp'.code \in {400, 401, 403, 404}
          /\ UNCHANGED <<users, categories, events, rsvps, favorites, requests, tickets, seq>>]_vars

\* The commit of a set_event_rsvp request has been answered 500: the row of
\* its user and event, inserted since it read none, made its INSERT break the
\* unique constraint.
C9_Witness ==
    /\ resp.op = "set_event_rsvp" /\ resp.code = 500
    /\ RsvpRows(DB, resp.caller, 1) # {}

\* C10: submit_event_for_moderation, called by the organizer of the event or
\* an admin, answers 200 on a draft or rejected event, which becomes
\* pending_moderation with a null moderation_comment and is otherwise as it
\* was; on a pending_moderation, published or archived event it answers 400
\* and changes nothing; and it succeeds for no caller on any other status.
C10_SubmitOnlyDraftOrRejected ==
    \A tok \in Presented, e \in DOMAIN events :
        LET r == submit_event_for_moderation(DB, tok, e) IN
        /\ r.code \in Success => events[e].status \in {"draft", "rejected"}
        /\ /\ role_required(OrganizerOrAdmin, DB, tok).code = 200
           /\ StoredRole(tok) = "admin" \/ events[e].organizer_id = tok.sub
           => IF events[e].status \in {"draft", "rejected"}
              THEN /\ r.code = 200
                   /\ r.db = [DB EXCEPT !.events[e].status = "pending_moderation",
                                        !.events[e].moderation_comment = NULL]
              ELSE r = Result(400, DB)

\* The only event there has been has just been submitted with success: it is
\* pending_moderation and its moderation_comment is null.
C10_Witness ==
    /\ resp.op = "submit_event_for_moderation" /\ resp.code = 200
    /\ seq.event = 2 /\ DOMAIN events = {1}
    /\ events[1].status = "pending_moderation"
    /\ events[1].moderation_comment = NULL


\* The event becomes rejected in this step.
BecomesRejected(e) ==
    StatusOf(events', e) = "rejected" /\ StatusOf(events, e) # "rejected"

\* C11: an event becomes rejected only through a successful reject_event on
\* an event under moderation; reject_event on an event in any other status
\* answers 400 and changes nothing; and every rejected event carries a
\* moderation comment that is not blank (a missing or blank comment is
\* replaced by the default text), whatever operation ran after the reject.
C11_RejectedOnlyByRejectWithComment ==
    /\ [][\A e \in EventInputs :
             BecomesRejected(e) =>
                 /\ resp'.op = "reject_event" /\ resp'.code = 200
                 /\ StatusOf(events, e) = "pending_moderation"]_vars
    /\ [](\A tok \in Presented, e \in EventIds(DB), b \in Comments :
             (role_required(AdminOnly, DB, tok).code = 200
              /\ events[e].status # "pending_moderation")
                 => reject_event(DB, tok, e, b) = Result(400, DB))
    /\ [](\A e \in EventIds(DB) :
             events[e].status = "rejected"
                 => /\ events[e].moderation_comment # NULL
                    /\ Strip(events[e].moderation_comment) # <<>>)

\* The only event was rejected by the last request, and it carries the
\* default comment: the request had no comment or a blank one.
C11_Witness ==
    /\ resp.op = "reject_event" /\ resp.code = 200
    /\ seq.event = 2 /\ DOMAIN events = {1}
    /\ events[1].status = "rejected"
    /\ events[1].moderation_comment = DefaultRejectComment

\* C12 as stated: a successful update_event of a published event leaves it
\* under moderation with no moderation comment, whoever the caller is and
\* whatever the payload.
C12_PublishedAlwaysDemoted ==
    \A tok \in Presented, e \in EventIds(DB), pl \in Payloads :
        LET r == update_event(DB, tok, e, pl) IN
        (events[e].status = "published" /\ r.code = 200)
            => /\ r.db.events[e].status = "pending_moderation"
               /\ r.db.events[e].moderation_comment = NULL

\* C12, amended: a successful update_event of a published event by a caller
\* whose stored role is not admin leaves it under moderation with no
\* moderation comment; by a caller whose stored role is admin it keeps the
\* status published and the moderation comment.
C12_PublishedDemotedUnlessAdmin ==
    \A tok \in Presented, e \in EventIds(DB), pl \in Payloads :
        LET r == update_event(DB, tok, e, pl) IN
        (events[e].status = "published" /\ r.code = 200)
            => IF StoredRole(tok) # "admin"
               THEN /\ r.db.events[e].status = "pending_moderation"
                    /\ r.db.events[e].moderation_comment = NULL
               ELSE /\ r.db.events[e].status = "published"
                    /\ r.db.events[e].moderation_comment = events[e].moderation_comment

\* The only event is published with the comment x and the title b: the admin
\* published it and then updated it, and it stayed published.
C12_Witness ==
    /\ resp.op = "update_event" /\ resp.code = 200
    /\ seq.event = 2 /\ DOMAIN events = {1}
    /\ events[1].status = "published"
    /\ events[1].moderation_comment = <<"x">>
    /\ events[1].title = <<"b">>

\* C13: delete_event called by an authenticated non-admin removes the event
\* only if the caller is its organizer and the event is draft, rejected or
\* archived, and then it does remove it (with its rows); on the caller's own
\* event under moderation or published it answers 400 and changes nothing;
\* called by an admin, delete_event and delete_event_as_admin remove an
\* event in any status.
C13_OrganizerDeletesOnlyUnpublished ==
    \A tok \in Presented, e \in EventIds(DB) :
        LET cur == role_required(OrganizerOrAdmin, DB, tok)
            r   == delete_event(DB, tok, e)
            own == cur.code = 200 /\ events[e].organizer_id = cur.user
        IN  IF cur.code = 200 /\ users[cur.user].role = "admin"
            THEN /\ r = Result(204, DeleteEvent(DB, e))
                 /\ delete_event_as_admin(DB, tok, e) = Result(204, DeleteEvent(DB, e))
                 /\ e \notin EventIds(r.db)
            ELSE /\ e \notin EventIds(r.db)
                     => own /\ events[e].status \in {"draft", "rejected", "archived"}
                 /\ (own /\ events[e].status \in {"draft", "rejected", "archived"})
                     => r = Result(204, DeleteEvent(DB, e))
                 /\ (own /\ events[e].status \in {"pending_moderation", "published"})
                     => r = Result(400, DB)

\* The organizer asked to delete their own published event, the only event,
\* and was answered 400: the event is still there.
C13_Witness ==
    /\ resp.op = "delete_event" /\ resp.code = 400 /\ resp.caller = 2
    /\ seq.event = 2 /\ DOMAIN events = {1}
    /\ events[1].organizer_id = 2
    /\ events[1].status = "published"

\* The event becomes archived in this step.
EntersArchived(e) ==
    StatusOf(events', e) = "archived" /\ StatusOf(events, e) # "archived"

\* C14, the arrow published/rejected -> archived of the state machine: on a
\* database that starts without events, once an event is published or
\* rejected, requests lead to a state where an event is archived.
C14_ArchivedIsReached ==
    (\E e \in EventIds(DB) : events[e].status \in {"published", "rejected"})
        ~> (\E e \in EventIds(DB) : events[e].status = "archived")

\* C14, what the handlers do instead: no request makes an event archived, so
\* an archived event is a row that was archived when the server started.
C14_NoRequestArchives ==
    [][\A e \in EventInputs : ~EntersArchived(e)]_vars

\* The only event was rejected by the last request; no event is archived.
C14_Witness ==
    /\ resp.op = "reject_event" /\ resp.code = 200
    /\ seq.event = 2 /\ DOMAIN events = {1}
    /\ events[1].status = "rejected"
    /\ events[1].title = <<"b">>

\* C15: in every state, also when create_organizer_request calls interleave,
\* a user has at most one pending organizer request; and a call by a caller
\* who has a pending request, or whose stored role is organizer or admin,
\* answers 400 and creates nothing.
C15_OnePendingRequestPerUser ==
    /\ \A u \in DOMAIN users : Cardinality(PendingRequests(DB, u)) <= 1
    /\ \A tok \in Presented :
           LET cur == get_current_user(DB, tok) IN
           (cur.code = 200
            /\ (PendingRequests(DB, cur.user) # {}
                \/ users[cur.user].role \in {"organizer", "admin"}))
               => create_organizer_request(DB, tok) = Result(400, DB)

\* Two create_organizer_request calls of user 2 both read no pending request
\* and both inserted: user 2 has two pending requests.
C15_Witness ==
    /\ resp.op = "create_organizer_request" /\ resp.code = 201 /\ resp.caller = 2
    /\ Cardinality(PendingRequests(DB, 2)) = 2

\* The request is resolved: approved or rejected.
Resolved(reqs, rid) ==
    rid \in DOMAIN reqs /\ reqs[rid].status \in {"approved", "rejected"}

\* C16: an organizer request is resolved at most once.  A resolved request
\* keeps its status in every later step; approve and reject called on a
\* resolved request answer 400 and change nothing; on a pending request a
\* successful approve stores approved and the role organizer together, and a
\* successful reject stores rejected with the reason.
C16_ResolvedAtMostOnce ==
    /\ [][\A rid \in DOMAIN requests :
             Resolved(requests, rid) => requests'[rid].status = requests[rid].status]_vars
    /\ [](\A tok \in Presented, rid \in DOMAIN requests, reason \in Reasons :
             LET a == approve_organizer_request(DB, tok, rid)
                 r == reject_organizer_request(DB, tok, rid, reason)
                 admin == role_required(AdminOnly, DB, tok).code = 200
             IN  /\ (admin /\ Resolved(requests, rid))
                        => a = Result(400, DB) /\ r = Result(400, DB)
                 /\ (admin /\ ~Resolved(requests, rid))
                        => /\ a.code = 200
                           /\ a.db.requests[rid].status = "approved"
                           /\ a.db.users[requests[rid].user_id].role = "organizer"
                           /\ r.code = 200
                           /\ r.db.requests[rid].status = "rejected"
                           /\ r.db.requests[rid].admin_comment
                                  = Strip(IF reason = NULL THEN DefaultRejectReason
                                          ELSE reason))

\* An approve and a reject of the only request both read it pending; the
\* approve committed, making user 2 an organizer, then the reject committed:
\* the request is rejected and user 2 is an organizer.
C16_Witness ==
    /\ resp.op = "reject_organizer_request" /\ resp.code = 200
    /\ DOMAIN requests = {1}
    /\ requests[1].status = "rejected"
    /\ users[2].role = "organizer"
    /\ \A p \in Procs : inflight[p] = Idle

\* C17: an update_user_role request leaves the stored role of its caller as
\* it was: an admin does not change their own role through it.
C17_OwnRoleUnchanged ==
    [][(resp'.op = "update_user_role" /\ resp'.caller \in DOMAIN users)
           => users'[resp'.caller].role = users[resp'.caller].role]_vars

\* User 2, an admin when the request was served, was answered 200 by
\* update_user_role on user 2 and is a plain user now.
C17_Witness ==
    /\ resp.op = "update_user_role" /\ resp.code = 200 /\ resp.caller = 2
    /\ users[2].role = "user"

\* C18: forgot_password gives the same status and the same body for every
\* email, registered or not, and whether the letter is skipped, sent or
\* send_email raises; and it leaves the stored state as it was.
C18_ForgotPasswordSameAnswer ==
    \A e1 \in EmailInputs, e2 \in EmailInputs, s1 \in SmtpStates, s2 \in SmtpStates :
        LET r1 == forgot_password(DB, e1, s1)
            r2 == forgot_password(DB, e2, s2)
        IN  /\ r1.code = 200 /\ r1.code = r2.code
            /\ r1.detail = r2.detail
            /\ r1.db = DB

\* forgot_password was answered while the email ab is registered and the
\* email aa is not: both kinds of input are among those compared.
C18_Witness ==
    /\ resp.op = "forgot_password" /\ resp.code = 200
    /\ UsersByEmail(DB, <<"a", "b">>) # {}
    /\ UsersByEmail(DB, <<"a", "a">>) = {}

\* C19: in every state, also while registrations interleave, no two users
\* have the same email and every stored email is trimmed and lower-cased;
\* register_user with an email that is, once normalized, the email of a
\* user answers 400 and creates no user; and login_user normalizes the
\* same way: a user who is not blocked logs in with any spelling of the
\* email that normalizes to the stored one.
C19_EmailsUniqueAndNormalized ==
    /\ \A u \in DOMAIN users, v \in DOMAIN users :
           u # v => users[u].email # users[v].email
    /\ \A u \in DOMAIN users :
           Strip(users[u].email) = users[u].email /\ Lower(users[u].email) = users[u].email
    /\ \A email \in EmailInputs, password \in PasswordInputs :
           UsersByEmail(DB, NormalizeEmail(email)) # {}
               => register_user(DB, email, password) = Result(400, DB)
    /\ \A u \in DOMAIN users, name \in EmailInputs :
           (NormalizeEmail(name) = users[u].email /\ ~users[u].is_blocked)
               => LET r == login_user(DB, name, users[u].hashed_password[2]) IN
                  r.code = 200 /\ r.token.sub = u

\* The email ab was registered by user 3, and the last register_user, with
\* an email that normalizes to a stored one, was answered 400.
C19_Witness ==
    /\ resp.op = "register_user" /\ resp.code = 400
    /\ DOMAIN users = 1..3
    /\ users[3].email = <<"a", "b">>
    /\ \A p \in Procs : inflight[p] = Idle

\* C20: category names are unique and slugs are unique, and create_category
\* by an admin with a name or a slug that a category has answers 400 and
\* creates nothing, also when the name is that of one category and the slug
\* that of another.
C20_DuplicateCategoryIs400 ==
    /\ \A c \in categories, d \in categories :
           c.id # d.id => c.name # d.name /\ c.slug # d.slug
    /\ \A name \in {"n1", "n2"}, slug \in {"s1", "s2"} :
           (\E c \in categories : c.name = name \/ c.slug = slug)
               => create_category(DB, AdminToken, name, slug) = Result(400, DB)

\* With the categories (n1, s1) and (n2, s2) stored, the admin's
\* create_category was answered 500: its name and slug match different rows.
C20_Witness ==
    /\ resp.op = "create_category" /\ resp.code = 500 /\ resp.caller = 1
    /\ Cardinality(categories) = 2

\* C21: set_event_rsvp by an authenticated caller on a published event
\* answers 200 and leaves exactly one RSVP row for (caller, event), with the
\* requested status (its id is the one of the row that was there, if any),
\* and every row of another user or another event as it was; on a missing
\* event or one that is not published it answers 404 and writes nothing.
C21_RsvpUpsertOnPublished ==
    \A tok \in Presented, e \in EventInputs, status \in RSVPStatus :
        LET cur == get_current_user(DB, tok)
            r   == set_event_rsvp(DB, tok, e, status)
            old == RsvpRows(DB, cur.user, e)
            new == RsvpRows(r.db, cur.user, e)
        IN  cur.code = 200 =>
                IF StatusOf(events, e) = "published"
                THEN /\ r.code = 200
                     /\ Cardinality(new) = 1
                     /\ \A x \in new : x.status = status
                     /\ \A x \in new, y \in old : x.id = y.id
                     /\ r.db.rsvps \ new = rsvps \ old
                     /\ [r.db EXCEPT !.rsvps = rsvps, !.seq = seq] = DB
                ELSE r = Result(404, DB)

\* The admin's RSVP was stored, and the event it is for is published: a
\* further set_event_rsvp of the admin overwrites it, one of the organizer
\* adds a row.
C21_Witness ==
    /\ resp.op = "set_event_rsvp" /\ resp.code = 200 /\ resp.caller = 1
    /\ \E x \in rsvps : x.user_id = 1 /\ StatusOf(events, x.event_id) = "published"

\* The favorite rows that are not those of user uid for event e.
OtherFavorites(db, uid, e) == db.favorites \ FavoriteRows(db, uid, e)

\* C22: for an authenticated caller and any event id, is_favorite answers
\* whether the caller's favorite row exists; add_favorite on a published
\* event answers is_favorite true and leaves exactly one row, the database
\* untouched when the row was there; remove_favorite answers is_favorite
\* false and leaves no row, the database untouched when there was none; add
\* and remove are idempotent, remove after add leaves no row; and no call
\* changes a row of another user or of another event.
C22_FavoritesIdempotentInverse ==
    \A tok \in Presented, e \in EventInputs :
        LET cur == get_current_user(DB, tok)
            u   == cur.user
            a   == add_favorite(DB, tok, e)
            rm  == remove_favorite(DB, tok, e)
        IN  cur.code = 200 =>
            /\ is_favorite(DB, tok, e)
                   = [code |-> 200,
                      body |-> IF \E f \in favorites : f.user_id = u /\ f.event_id = e
                               THEN "is_favorite: true" ELSE "is_favorite: false"]
            /\ StatusOf(events, e) = "published" =>
                   /\ a.code = 201 /\ add_favorite_body(DB, tok, e) = "is_favorite: true"
                   /\ Cardinality(FavoriteRows(a.db, u, e)) = 1
                   /\ FavoriteRows(DB, u, e) # {} => a.db = DB
                   /\ OtherFavorites(a.db, u, e) = OtherFavorites(DB, u, e)
                   /\ add_favorite(a.db, tok, e) = Result(201, a.db)
                   /\ FavoriteRows(remove_favorite(a.db, tok, e).db, u, e) = {}
                   /\ OtherFavorites(remove_favorite(a.db, tok, e).db, u, e)
                          = OtherFavorites(DB, u, e)
            /\ rm.code = 200 /\ remove_favorite_body(DB, tok, e) = "is_favorite: false"
            /\ FavoriteRows(rm.db, u, e) = {}
            /\ FavoriteRows(DB, u, e) = {} => rm.db = DB
            /\ OtherFavorites(rm.db, u, e) = OtherFavorites(DB, u, e)
            /\ remove_favorite(rm.db, tok, e) = Result(200, rm.db)

\* remove_favorite of the organizer was answered 200 while the admin has a
\* favorite row for the only event, which is published: the admin's row is
\* there and the organizer has none.
C22_Witness ==
    /\ resp.op = "remove_favorite" /\ resp.code = 200 /\ resp.caller = 2
    /\ seq.event = 2 /\ DOMAIN events = {1}
    /\ events[1].status = "published"
    /\ seq.favorite = 3
    /\ \E f \in favorites : f.user_id = 1 /\ f.event_id = 1
    /\ \A f \in favorites : f.user_id # 2

\* C23: when update_event answers 400 because the payload's category_id is
\* the id of no category, the database is as it was: the title that the
\* handler assigned before the category check is not stored.
C23_UpdateEventAllOrNothing ==
    \A tok \in Presented, e \in EventIds(DB), title \in Titles \cup {NULL},
       c \in CategoryInputs :
        LET r == update_event(DB, tok, e, [title |-> title, category_id |-> c]) IN
        (c \notin CategoryIds(DB) /\ r.code = 400) => r.db = DB

\* update_event with the title b and a category that does not exist was
\* answered 400, and the only event still has the title a.
C23_Witness ==
    /\ resp.op = "update_event" /\ resp.code = 400 /\ resp.caller = 1
    /\ Cardinality(categories) = 1
    /\ seq.event = 2 /\ DOMAIN events = {1}
    /\ events[1].title = <<"a">>

\* A signed token that carries the scope password_reset.
ResetTokens == {tok \in tokens : tok.scope = "password_reset"}

\* C24, first part: reset_password stores a new password only for a signed
\* token whose scope is password_reset; every other token, the access tokens
\* of login_user included, is answered 400 and leaves every password as it was.
C24_ResetNeedsResetScope ==
    \A tok \in Presented, password \in PasswordInputs :
        LET r == reset_password(DB, tok, password) IN
        /\ tok \notin ResetTokens => r.code = 400 /\ r.db = DB
        /\ r.db # DB => tok \in ResetTokens /\ r.code = 200

\* C24, second part: get_current_user authenticates no request whose bearer
\* token is a password-reset token.
C24_ResetTokenIsNoBearer ==
    \A tok \in ResetTokens : get_current_user(DB, tok).code # 200

\* The password of user 2 was changed to q by reset_password, and an access
\* token of user 2 is among the signed tokens.
C24_Witness ==
    /\ resp.op = "reset_password" /\ resp.code = 200 /\ resp.caller = 2
    /\ users[2].hashed_password = hash_password(<<"q">>)
    /\ create_access_token(2, "organizer") \in tokens

\* C25: the title of an event that is published after a step changes in that
\* step only when the step answers an update_event of an admin; no
\* update_event of the organizer, alone or interleaved with publish_event,
\* leaves a title of the organizer on a published event.
C25_PublishedContentOnlyByAdmin ==
    [][\A e \in EventInputs :
          (/\ e \in DOMAIN events
           /\ StatusOf(events', e) = "published"
           /\ events'[e].title # events[e].title)
          => (/\ resp'.op = "update_event" /\ resp'.code = 200
              /\ resp'.caller \in DOMAIN users
              /\ users[resp'.caller].role = "admin")]_vars

\* The organizer's update_event was answered 200 for the only event, which is
\* published and carries the title b.
C25_Witness ==
    /\ resp.op = "update_event" /\ resp.code = 200 /\ resp.caller = 2
    /\ DOMAIN events = {1}
    /\ events[1].status = "published" /\ events[1].title = <<"b">>

\* Served one at a time, update_event and publish_event do what the two
\* steps do together.
C25_StepsAreTheHandler ==
    \A tok \in Presented, e \in EventInputs, title \in Titles :
        LET rd  == update_event_read(DB, tok, e, title)
            r   == update_event(DB, tok, e, [title |-> title, category_id |-> 0])
            pd  == publish_event_read(DB, tok, e)
            pr  == publish_event(DB, tok, e, NULL)
        IN  /\ rd.code = r.code
            /\ rd.code = 200 => update_event_commit(DB, e, rd.seen, rd.loaded) = r
            /\ pd.code = pr.code
            /\ pd.code = 200 => publish_event_commit(DB, e, NULL) = pr

\* The step commits the approve or the reject that process p holds.
Resolves(p) ==
    /\ inflight[p].op \in {"approve_organizer_request", "reject_organizer_request"}
    /\ inflight'[p] = Idle

\* C26: approve and reject of one organizer request exclude each other also
\* when they interleave: an approve or a reject is answered 200 only in a
\* step that finds the request still pending, so of two overlapping calls at
\* most one succeeds, and a reject never succeeds on a request whose approval
\* has made its user an organizer.
C26_ResolveFindsPending ==
    [][\A p \in Procs :
          (Resolves(p) /\ resp'.code = 200)
          => requests[inflight[p].event].status = "pending"]_vars

\* A reject of the request of user 2 was answered 200 and stored its reason
\* while user 2 is an organizer: the request is rejected, its user promoted.
C26_Witness ==
    /\ resp.op = "reject_organizer_request" /\ resp.code = 200 /\ resp.caller = 1
    /\ requests # <<>> /\ requests[1].status = "rejected"
    /\ requests[1].user_id = 2
    /\ requests[1].admin_comment # DefaultApproveComment
    /\ users[2].role = "organizer"
    /\ inflight[1] = Idle

\* C27: approve_organizer_request never lowers privileges: a user whose
\* stored role is admin when the approval commits is still an admin after it.
C27_ApproveKeepsAdmin ==
    [][\A p \in Procs, u \in DOMAIN users :
          (/\ inflight[p].op = "approve_organizer_request"
           /\ inflight'[p] = Idle
           /\ users[u].role = "admin")
          => users'[u].role = "admin"]_vars

\* The same of the handler served in one step, for every request and token.
C27_ApproveKeepsAdminServed ==
    \A tok \in Presented, rid \in RequestInputs, u \in DOMAIN users :
        users[u].role = "admin"
            => approve_organizer_request(DB, tok, rid).db.users[u].role = "admin"

\* An approve_organizer_request was answered 200 for the request of user 2,
\* whose stored role is organizer.
C27_Witness ==
    /\ resp.op = "approve_organizer_request" /\ resp.code = 200
    /\ requests # <<>> /\ requests[1].user_id = 2 /\ requests[1].status = "approved"
    /\ users[2].role = "organizer"

\* The status of ticket t, absent when no such row is stored.
TicketStatus(tks, t) == IF t \in DOMAIN tks THEN tks[t].status ELSE "absent"

\* C30: a support ticket that is closed never returns to answered or open: in
\* every step a stored ticket whose status is closed is, if still stored,
\* closed after the step, whatever reply_ticket and close_ticket requests
\* are served.
C30_ClosedStaysClosed ==
    [][\A t \in TicketInputs :
          (TicketStatus(tickets, t) = "closed" /\ t \in DOMAIN tickets')
          => TicketStatus(tickets', t) = "closed"]_vars

\* The other statements of C30 about single requests: a ticket is created
\* open with no admin_reply, a successful reply_ticket stores the stripped
\* reply and the status answered, a successful close_ticket stores closed.
C30_TicketSteps ==
    \A tok \in Presented, t \in TicketInputs, reply \in Replies :
        LET c == create_support_ticket(DB, tok)
            r == reply_ticket(DB, tok, t, reply)
            k == close_ticket(DB, tok, t)
        IN  /\ c.code = 201 => /\ c.db.tickets[seq.ticket].status = "open"
                               /\ c.db.tickets[seq.ticket].admin_reply = NULL
            /\ r.code = 200 => /\ r.db.tickets[t].status = "answered"
                               /\ r.db.tickets[t].admin_reply = Strip(reply)
            /\ k.code = 200 => k.db.tickets[t].status = "closed"

\* reply_ticket was answered 200 for ticket 1, which carries the reply and is
\* answered, while ticket 2 is closed.
C30_Witness ==
    /\ resp.op = "reply_ticket" /\ resp.code = 200
    /\ DOMAIN tickets = {1, 2}
    /\ tickets[1].status = "answered" /\ tickets[1].admin_reply = <<"o", "k">>
    /\ tickets[2].status = "closed"

\* C29: a free event has no price.  After every successful update_event whose
\* payload sets is_free to true the stored event has is_free true and
\* price_from null, whatever else the payload carries.
C29_FreeEventHasNoPrice ==
    \A tok \in Presented, e \in EventInputs, payload \in PricePayloads :
        LET r == update_event(DB, tok, e, payload) IN
        (r.code = 200 /\ HasField(payload, "is_free") /\ payload.is_free)
            => /\ r.db.events[e].is_free
               /\ r.db.events[e].price_from = NoPrice

\* The same for the payloads that set is_free to true and carry no price:
\* the price stored before is cleared.
C29_FreeAloneClearsPrice ==
    \A tok \in Presented, e \in EventInputs :
        LET r == update_event(DB, tok, e,
                              [title |-> NULL, category_id |-> 0, is_free |-> TRUE])
        IN  r.code = 200 => r.db.events[e].is_free /\ r.db.events[e].price_from = NoPrice

\* update_event was answered 200 and the only event is free with the price 5.
C29_Witness ==
    /\ resp.op = "update_event" /\ resp.code = 200
    /\ DOMAIN events = {1}
    /\ events[1].is_free /\ events[1].price_from = 5

\* The role and the block flag of every account.
Privileges(db) == [u \in DOMAIN db.users |-> <<db.users[u].role, db.users[u].is_blocked>>]

\* The caller is not an authenticated account whose stored role is admin.
NonAdmin(tok) == ~(Authenticated(tok) /\ users[tok.sub].role = "admin")

PrivilegedOps == {"update_user_role", "update_user_block", "approve_organizer_request"}

\* The databases the requests a caller can send with the token tok lead to.
RequestOutcomes(tok) ==
    {update_me(DB, tok).db, create_organizer_request(DB, tok).db,
     create_event(DB, tok, [title |-> <<"a">>, category_id |-> 1]).db,
     create_support_ticket(DB, tok).db}
    \cup {reset_password(DB, tok, pw).db : pw \in PasswordInputs}
    \cup {forgot_password(DB, email, smtp).db : email \in EmailInputs, smtp \in SmtpStates}
    \cup {update_event(DB, tok, e, [title |-> <<"b">>, category_id |-> 0]).db : e \in EventInputs}
    \cup {delete_event(DB, tok, e).db : e \in EventInputs}
    \cup {submit_event_for_moderation(DB, tok, e).db : e \in EventInputs}
    \cup {set_event_rsvp(DB, tok, e, st).db : e \in EventInputs, st \in RSVPStatus}
    \cup {add_favorite(DB, tok, e).db : e \in EventInputs}
    \cup {remove_favorite(DB, tok, e).db : e \in EventInputs}
    \cup {update_user_role(DB, tok, u, r).db : u \in DOMAIN users, r \in UserRole}
    \cup {update_user_block(DB, tok, u, b).db : u \in DOMAIN users, b \in BOOLEAN}
    \cup {approve_organizer_request(DB, tok, rid).db : rid \in RequestInputs}
    \cup {reject_organizer_request(DB, tok, rid, NULL).db : rid \in RequestInputs}

\* C28: no privilege escalation without an admin.  register_user creates
\* accounts with role user and is_blocked false; no request of a caller who
\* is not an admin changes the role or the block flag of any account; and a
\* step changes one of the two only by answering 200 to update_user_role,
\* update_user_block or approve_organizer_request sent by an admin.
C28_NoEscalationWithoutAdmin ==
    /\ [][/\ \A u \in DOMAIN users :
                Privileges(DB')[u] # Privileges(DB)[u]
                => /\ resp'.op \in PrivilegedOps /\ resp'.code = 200
                   /\ resp'.caller \in DOMAIN users
                   /\ users[resp'.caller].role = "admin"
          /\ \A v \in DOMAIN users' \ DOMAIN users :
                /\ resp'.op = "register_user"
                /\ Privileges(DB')[v] = <<"user", FALSE>>]_vars
    /\ [](\A tok \in Presented :
             NonAdmin(tok) => \A db \in RequestOutcomes(tok) : Privileges(db) = Privileges(DB))
    /\ [](\A email \in RegisterEmails, pw \in PasswordInputs :
             LET r == register_user(DB, email, pw) IN
             \A u \in DOMAIN r.db.users :
                 Privileges(r.db)[u] = IF u \in DOMAIN users THEN Privileges(DB)[u]
                                       ELSE <<"user", FALSE>>)

\* User 2, a plain user who has a pending organizer request and a published
\* event, was answered 200 by update_me and is still a plain user, while an
\* account registered later exists.
C28_Witness ==
    /\ resp.op = "update_me" /\ resp.code = 200 /\ resp.caller = 2
    /\ users[2].role = "user" /\ ~users[2].is_blocked
    /\ PendingRequests(DB, 2) # {}
    /\ StatusOf(events, 1) = "published"
    /\ DOMAIN users # UserIds

=========================================================================
